---- MODULE Spec2Model ----
(***************************************************************************)
(* State-machine model of the Pong game in src/main.c: the phase machine   *)
(* of main/UpdateSplashScreen/UpdateModeSelect/UpdateGame, the ball and    *)
(* paddle physics of UpdateGame, CheckPaddleCollision, UpdateAI, ResetBall *)
(* and InitGame.                                                           *)
(*                                                                         *)
(* Numbers.  The program computes in C float.  The model keeps every       *)
(* length and velocity as an integer number of hundredths of a pixel       *)
(* (Px(n) is n pixels); a product or quotient that is not a whole number   *)
(* of hundredths is rounded toward zero (TruncDiv).  The speed multiplier  *)
(* is kept in tenths (10 is 1.0) and the AI difficulty in thousandths.     *)
(***************************************************************************)
EXTENDS Integers, Sequences, FiniteSets, TLC

(* ------------------------------------------------------------------ *)
(* Program constants (src/main.c:39-48, 651)                          *)
(* ------------------------------------------------------------------ *)
SCREEN_WIDTH == 1280
SCREEN_HEIGHT == 800
PADDLE_WIDTH == 25
PADDLE_HEIGHT == 200
BALL_RADIUS == 20
BALL_INITIAL_SPEED == 8
PADDLE_SPEED == 12
MAX_BALL_SPEED == 15
WALL_BOUNCE_BUFFER == 2
WIN_SCORE == 10
MAX_PARTICLES == 100

\* n pixels in the model's unit, the hundredth of a pixel.
Px(n) == n * 100

\* SPEED_INCREMENT, 0.2f pixels per tick, in hundredths of a pixel.
SPEED_INCREMENT == Px(2) \div 10

Abs(a) == IF a < 0 THEN -a ELSE a

Sign(a) == IF a < 0 THEN -1 ELSE IF a > 0 THEN 1 ELSE 0

Min(a, b) == IF a < b THEN a ELSE b

\* a / b for b > 0, rounded toward zero: the model's rounding of a float
\* quotient to a whole number of units.
TruncDiv(a, b) == Sign(a) * (Abs(a) \div b)

(* ------------------------------------------------------------------ *)
(* The environment: the inputs a tick can sample                       *)
(* ------------------------------------------------------------------ *)

\* Mouse positions, in pixels: on the mode-1 button, on the mode-2 button,
\* on the right end of the speed slider, and on none of them.
MousePositions == { <<590, 400>>, <<590, 460>>, <<789, 610>>, <<590, 100>> }

\* The movement keys held during a match, as (W, S, UP, DOWN).  The keys
\* are pressed or released between matches only: the tick that starts a
\* match samples the set that stays held until the match is over.
KeyHolds ==
    { <<FALSE, FALSE, FALSE, FALSE>>, <<TRUE, FALSE, FALSE, TRUE>>,
      <<FALSE, TRUE, TRUE, FALSE>>, <<TRUE, TRUE, TRUE, TRUE>> }

\* The random source.  GetRandomValue(min, max) is min + v % (max - min + 1)
\* for the next value v of a generator that InitWindow seeds; the model's
\* generator is the linear congruential one below, seeded from Seeds, and
\* the variable rng is its state.  The model follows the draws that reach
\* the ball and the paddles: ResetBall's serve angle, UpdateAI's
\* imperfection.
Seeds == 7..11

NextRandom(s) == (75 * s + 74) % 65537

RandomValue(s, lo, hi) == lo + (s % (hi - lo + 1))

\* The longest match the model follows, in Playing ticks: after that many
\* the window is closed.
MaxTicks == 500

\* GetFrameTime() in milliseconds: a frame at the 60 FPS target and a slow
\* frame.
FrameTimes == { 16, 250 }

\* The number of frames FxSpec follows.
MaxFrames == 3

VARIABLES
    state,        \* game.state
    mode,         \* game.mode
    ball,         \* game.ball: position x, y and velocity vx, vy
    playerY,      \* game.playerPaddle.rect.y
    aiY,          \* game.aiPaddle.rect.y
    playerScore,  \* game.playerScore
    aiScore,      \* game.aiScore
    winScore,     \* game.winScore
    mult,         \* game.ballSpeedMultiplier, in tenths
    dragging,     \* the static dragging of UpdateModeSelect
    mouseWasDown, \* the left button's state in the previous frame
    keys,         \* the movement keys held, as (W, S, UP, DOWN)
    rng,          \* the state of the random source
    ticks,        \* Playing ticks of the current match
    last,         \* what the last physics tick or InitGame of the match did
    rally,        \* the paddle hits and quiet ticks since the last serve
    particles,    \* game.particles[0 .. activeParticles-1]
    screenShake,  \* game.screenShake, in thousandths
    shakeOffset,  \* game.shakeOffset, in thousandths of a pixel
    fxpc,         \* FxSpec: the half of the frame that runs next
    fxlast,       \* FxSpec: what the last update half did, and the pool size
                  \* and generator state it found
    frames        \* FxSpec: frames drawn

\* The simulation fields, the random source apart.
sim == << state, mode, ball, playerY, aiY, playerScore, aiScore, winScore,
          mult, dragging, mouseWasDown, keys, ticks, last, rally >>

\* The presentation fields: particle pool and screen shake.
fx == << particles, screenShake, shakeOffset, fxpc, fxlast, frames >>

vars == << state, mode, ball, playerY, aiY, playerScore, aiScore, winScore,
           mult, dragging, mouseWasDown, keys, rng, ticks, last, rally,
           particles, screenShake, shakeOffset, fxpc, fxlast, frames >>

(* ------------------------------------------------------------------ *)
(* raymath / raylib helpers as the program uses them                   *)
(* ------------------------------------------------------------------ *)

\* raymath Clamp(value, min, max).
Clamp(v, lo, hi) == IF v < lo THEN lo ELSE IF v > hi THEN hi ELSE v

\* raylib CheckCollisionPointRec(point, rec), rec = [x, y, w, h].
CheckCollisionPointRec(px, py, rec) ==
    /\ px >= rec.x
    /\ px < rec.x + rec.w
    /\ py >= rec.y
    /\ py < rec.y + rec.h

\* raylib CheckCollisionCircleRec(center, radius, rec).  Doubled
\* coordinates keep the half widths exact.
CheckCollisionCircleRec(cx, cy, radius, rec) ==
    LET dx2 == Abs(2 * cx - (2 * rec.x + rec.w))
        dy2 == Abs(2 * cy - (2 * rec.y + rec.h))
        ex2 == dx2 - rec.w
        ey2 == dy2 - rec.h
    IN  IF dx2 > rec.w + 2 * radius THEN FALSE
        ELSE IF dy2 > rec.h + 2 * radius THEN FALSE
        ELSE IF dx2 <= rec.w THEN TRUE
        ELSE IF dy2 <= rec.h THEN TRUE
        ELSE ex2 * ex2 + ey2 * ey2 <= 4 * radius * radius

(* ------------------------------------------------------------------ *)
(* Paddles                                                             *)
(* ------------------------------------------------------------------ *)

\* playerPaddle.rect and aiPaddle.rect at vertical position y.
PlayerRect(y) == [x |-> Px(10), y |-> y, w |-> Px(PADDLE_WIDTH), h |-> Px(PADDLE_HEIGHT)]

AIRect(y) ==
    [x |-> Px(SCREEN_WIDTH - 10 - PADDLE_WIDTH), y |-> y,
     w |-> Px(PADDLE_WIDTH), h |-> Px(PADDLE_HEIGHT)]

\* The vertical position both paddles get in InitGame.
PaddleStartY == Px((SCREEN_HEIGHT - PADDLE_HEIGHT) \div 2)

\* MovePaddle without its clamp: a variant C6 must reject.
MovePaddleNoClamp(y, up, down) ==
    y + (IF down THEN Px(PADDLE_SPEED) ELSE 0)
      - (IF up THEN Px(PADDLE_SPEED) ELSE 0)

\* A key-driven paddle step: movement from the held keys, then the clamp.
MovePaddle(y, up, down) ==
    LET movement == (IF down THEN Px(PADDLE_SPEED) ELSE 0)
                    - (IF up THEN Px(PADDLE_SPEED) ELSE 0)
    IN  Clamp(y + movement, 0, Px(SCREEN_HEIGHT) - Px(PADDLE_HEIGHT))

(* ------------------------------------------------------------------ *)
(* Ball physics of UpdateGame                                          *)
(* ------------------------------------------------------------------ *)

\* ball.position += ball.velocity.
IntegrateBall(b) == [b EXCEPT !.x = b.x + b.vx, !.y = b.y + b.vy]

\* The wall test of UpdateGame on the integrated ball.
TouchesWall(b) ==
    \/ b.y - Px(BALL_RADIUS) <= 0
    \/ b.y + Px(BALL_RADIUS) >= Px(SCREEN_HEIGHT)

\* WallResolve without the repositioning: a variant C9 must reject.
WallResolveNoReposition(b) ==
    IF TouchesWall(b) THEN [b EXCEPT !.vy = -b.vy] ELSE b

\* Wall resolution: invert the vertical velocity and put the ball back
\* inside, WALL_BOUNCE_BUFFER away from the wall it went through.
WallResolve(b) ==
    IF TouchesWall(b)
    THEN LET y1 == IF b.y < Px(BALL_RADIUS)
                   THEN Px(BALL_RADIUS) + Px(WALL_BOUNCE_BUFFER)
                   ELSE b.y
             y2 == IF y1 > Px(SCREEN_HEIGHT) - Px(BALL_RADIUS)
                   THEN Px(SCREEN_HEIGHT) - Px(BALL_RADIUS) - Px(WALL_BOUNCE_BUFFER)
                   ELSE y1
         IN  [b EXCEPT !.vy = -b.vy, !.y = y2]
    ELSE b

\* CheckPaddleCollision as a point test against the bare paddle rectangle:
\* a variant C23 must reject.
CheckPaddleCollisionThin(b, rect) ==
    /\ \/ rect.x < Px(SCREEN_WIDTH \div 2) /\ b.vx < 0
       \/ rect.x > Px(SCREEN_WIDTH \div 2) /\ b.vx > 0
    /\ CheckCollisionPointRec(b.x, b.y, rect)

\* CheckPaddleCollision without the movingTowardPaddle test: a variant C31
\* must reject.
CheckPaddleCollisionAnyDirection(b, rect) ==
    LET paddleRect == [rect EXCEPT !.x = rect.x - Px(BALL_RADIUS),
                                   !.w = rect.w + 2 * Px(BALL_RADIUS)]
        rayLengthPositive == b.vx # 0 \/ b.vy # 0
        hitBox == [x |-> paddleRect.x - Px(BALL_RADIUS),
                   y |-> paddleRect.y - Px(BALL_RADIUS),
                   w |-> paddleRect.w + 2 * Px(BALL_RADIUS),
                   h |-> paddleRect.h + 2 * Px(BALL_RADIUS)]
        circle == CheckCollisionCircleRec(b.x, b.y, Px(BALL_RADIUS), paddleRect)
    IN  IF rayLengthPositive
           /\ (CheckCollisionPointRec(b.x, b.y, hitBox) \/ circle)
        THEN TRUE
        ELSE circle

\* CheckPaddleCollision(ball, paddle, game) for the paddle with rectangle rect.
CheckPaddleCollision(b, rect) ==
    LET paddleRect == [rect EXCEPT !.x = rect.x - Px(BALL_RADIUS),
                                   !.w = rect.w + 2 * Px(BALL_RADIUS)]
        movingTowardPaddle ==
            \/ paddleRect.x < Px(SCREEN_WIDTH \div 2) /\ b.vx < 0
            \/ paddleRect.x > Px(SCREEN_WIDTH \div 2) /\ b.vx > 0
        rayLengthPositive == b.vx # 0 \/ b.vy # 0
        hitBox == [x |-> paddleRect.x - Px(BALL_RADIUS),
                   y |-> paddleRect.y - Px(BALL_RADIUS),
                   w |-> paddleRect.w + 2 * Px(BALL_RADIUS),
                   h |-> paddleRect.h + 2 * Px(BALL_RADIUS)]
        circle == CheckCollisionCircleRec(b.x, b.y, Px(BALL_RADIUS), paddleRect)
    IN  IF ~movingTowardPaddle THEN FALSE
        ELSE IF rayLengthPositive
                /\ (CheckCollisionPointRec(b.x, b.y, hitBox) \/ circle)
             THEN TRUE
             ELSE circle

\* adjustedMaxSpeed = MAX_BALL_SPEED * ballSpeedMultiplier.
AdjustedMaxSpeed(m) == (Px(MAX_BALL_SPEED) * m) \div 10

\* HitSpeed without the cap: a variant C7 must reject.
HitSpeedUncapped(vx, m) == Abs(vx) + SPEED_INCREMENT

\* speed = fminf(fabs(velocity.x) + SPEED_INCREMENT, adjustedMaxSpeed).
HitSpeed(vx, m) == Min(Abs(vx) + SPEED_INCREMENT, AdjustedMaxSpeed(m))

\* The numerator of hitPosition: ball y minus the paddle's vertical centre.
\* hitPosition itself is HitOffset / HalfPaddle.
HitOffset(b, paddleY) == b.y - (paddleY + Px(PADDLE_HEIGHT) \div 2)

HalfPaddle == Px(PADDLE_HEIGHT) \div 2

\* velocity.y = hitPosition * (speed * 0.75f).
HitVy(b, paddleY, speed) == TruncDiv(HitOffset(b, paddleY) * speed * 3, 4 * HalfPaddle)

\* PaddleHit that adds the hit's vertical velocity to the ball's: a variant
\* C27 must reject.
PaddleHitAddsVy(b, paddleY, dir, m) ==
    [b EXCEPT !.vx = dir * Min(Abs(b.vx) + SPEED_INCREMENT, AdjustedMaxSpeed(m)),
              !.vy = b.vy + TruncDiv((b.y - (paddleY + Px(PADDLE_HEIGHT) \div 2))
                                        * Min(Abs(b.vx) + SPEED_INCREMENT,
                                              AdjustedMaxSpeed(m)) * 3,
                                     4 * (Px(PADDLE_HEIGHT) \div 2))]

\* The body of a resolved paddle hit; dir is 1 for the player paddle
\* (velocity.x = speed) and -1 for the second paddle (velocity.x = -speed).
PaddleHit(b, paddleY, dir, m) ==
    LET speed == HitSpeed(b.vx, m)
    IN  [b EXCEPT !.vx = dir * speed, !.vy = HitVy(b, paddleY, speed)]

\* The out-of-bounds tests of the scoring step.
OutLeft(b) == b.x < -Px(BALL_RADIUS)

OutRight(b) == b.x > Px(SCREEN_WIDTH) + Px(BALL_RADIUS)

\* ResetBall with the serve direction reversed: a variant C15 must reject.
ResetBallReversed(serverIsPlayer, m, r) ==
    [x  |-> Px(SCREEN_WIDTH \div 2),
     y  |-> Px(SCREEN_HEIGHT \div 2),
     vx |-> (IF serverIsPlayer THEN -1 ELSE 1) * ((Px(BALL_INITIAL_SPEED) * m) \div 10),
     vy |-> TruncDiv(r * ((Px(BALL_INITIAL_SPEED) * m) \div 10), 100)]

\* ResetBall that serves the ball straight up or down, with no horizontal
\* velocity: a variant C32 must reject.
ResetBallStill(serverIsPlayer, m, r) ==
    [x  |-> Px(SCREEN_WIDTH \div 2),
     y  |-> Px(SCREEN_HEIGHT \div 2),
     vx |-> 0,
     vy |-> TruncDiv(r * ((Px(BALL_INITIAL_SPEED) * m) \div 10), 100)]

\* ResetBall(game, serverIsPlayer): the ball it leaves, for multiplier m
\* and r the value GetRandomValue(-100, 100) returned.
ResetBall(serverIsPlayer, m, r) ==
    LET initialSpeed == (Px(BALL_INITIAL_SPEED) * m) \div 10
    IN  [x  |-> Px(SCREEN_WIDTH \div 2),
         y  |-> Px(SCREEN_HEIGHT \div 2),
         vx |-> IF serverIsPlayer THEN initialSpeed ELSE -initialSpeed,
         vy |-> TruncDiv(r * initialSpeed, 100)]

(* ------------------------------------------------------------------ *)
(* UpdateAI                                                            *)
(* ------------------------------------------------------------------ *)

\* difficulty = Clamp(0.7 * (1 + (multiplier - 1) * 0.5), 0.5, 0.95), in
\* thousandths: 0.7 * (1 + (m/10 - 1) / 2) = 0.350 + 0.035 * m.
Difficulty(m) == Clamp(350 + 35 * m, 500, 950)

\* The wall-bounce folding loop of UpdateAI on the projected y.
RECURSIVE FoldPrediction(_)
FoldPrediction(p) ==
    LET bounceDistance ==
            IF p < 0 THEN -p
            ELSE IF p > Px(SCREEN_HEIGHT) THEN 2 * Px(SCREEN_HEIGHT) - p
            ELSE 0
    IN  IF bounceDistance > 0
        THEN IF p < 0 THEN FoldPrediction(-p)
             ELSE IF p > Px(SCREEN_HEIGHT)
                  THEN FoldPrediction(2 * Px(SCREEN_HEIGHT) - p)
                  ELSE p
        ELSE p

\* PredictedY that projects whenever the ball moves horizontally, toward
\* the second paddle or away from it: a variant C24 must reject.
PredictedYBothWays(b, aY) ==
    IF b.vx # 0
    THEN b.y + Sign(b.vx) * TruncDiv(b.vy * (AIRect(aY).x - b.x), Abs(b.vx))
    ELSE b.y

\* predictedY of UpdateAI for the second paddle at aY.
PredictedY(b, aY) ==
    IF b.vx > 0
    THEN LET distanceToIntercept == AIRect(aY).x - b.x
         IN  IF distanceToIntercept > 0
             THEN FoldPrediction(b.y + TruncDiv(b.vy * distanceToIntercept, b.vx))
             ELSE b.y
    ELSE b.y

\* (int)(30 * (1.0f - difficulty)): the random imperfection is applied
\* when GetRandomValue(0, 100) is below it.
ErrorThreshold(m) == (30 * (1000 - Difficulty(m))) \div 1000

\* targetY after the imperfection and the clamp; errOn says whether the
\* imperfection branch is taken and e is its GetRandomValue(-30, 30).
AITarget(b, aY, m, errOn, e) ==
    LET targetY == PredictedY(b, aY) - Px(PADDLE_HEIGHT) \div 2
        err == IF errOn THEN TruncDiv(Px(e) * (1000 - Difficulty(m)), 1000) ELSE 0
    IN  Clamp(targetY + err, 0, Px(SCREEN_HEIGHT) - Px(PADDLE_HEIGHT))

\* AIMoveStep without the cap: a variant C25 must reject.
AIMoveStepUncapped(distanceToTarget, m) ==
    IF Abs(distanceToTarget) > Px(1)
    THEN TruncDiv(distanceToTarget * Difficulty(m), 10000)
    ELSE 0

\* The eased, capped step toward the target.
AIMoveStep(distanceToTarget, m) ==
    IF Abs(distanceToTarget) > Px(1)
    THEN LET moveStep == TruncDiv(distanceToTarget * Difficulty(m), 10000)
             maxStep == (Px(PADDLE_SPEED) * Difficulty(m)) \div 1000
         IN  IF Abs(moveStep) > maxStep
             THEN maxStep * (IF distanceToTarget > 0 THEN 1 ELSE -1)
             ELSE moveStep
    ELSE 0

\* UpdateAI(aiPaddle, ball, game): the new aiPaddle.rect.y.
UpdateAI(aY, b, m, errOn, e) ==
    LET targetY == AITarget(b, aY, m, errOn, e)
    IN  Clamp(aY + AIMoveStep(targetY - aY, m), 0,
              Px(SCREEN_HEIGHT) - Px(PADDLE_HEIGHT))

(* ------------------------------------------------------------------ *)
(* The Game struct as a record, and the handlers on it                 *)
(* ------------------------------------------------------------------ *)

\* The simulation fields of the Game struct, read from the variables.
Game ==
    [state |-> state, mode |-> mode, ball |-> ball, playerY |-> playerY,
     aiY |-> aiY, playerScore |-> playerScore, aiScore |-> aiScore,
     winScore |-> winScore]

\* Game game = {0}: the ball of the zeroed struct.
ZeroBall == [x |-> 0, y |-> 0, vx |-> 0, vy |-> 0]

\* InitGame that keeps the scores: a variant C3 must reject.
InitGameKeepScores(g, md, m, r) ==
    [g EXCEPT !.state = "Playing", !.mode = md,
              !.ball = [x  |-> Px(SCREEN_WIDTH \div 2),
                        y  |-> Px(SCREEN_HEIGHT \div 2),
                        vx |-> (Px(BALL_INITIAL_SPEED) * m) \div 10,
                        vy |-> TruncDiv(r * ((Px(BALL_INITIAL_SPEED) * m) \div 10), 100)],
              !.playerY = Px((SCREEN_HEIGHT - PADDLE_HEIGHT) \div 2),
              !.aiY = Px((SCREEN_HEIGHT - PADDLE_HEIGHT) \div 2),
              !.winScore = WIN_SCORE]

\* InitGame that leaves the paddles where the last match left them: a
\* variant C22 must reject.
InitGameKeepPaddles(g, md, m, r) ==
    [g EXCEPT !.state = "Playing", !.mode = md,
              !.ball = [x  |-> Px(SCREEN_WIDTH \div 2),
                        y  |-> Px(SCREEN_HEIGHT \div 2),
                        vx |-> (Px(BALL_INITIAL_SPEED) * m) \div 10,
                        vy |-> TruncDiv(r * ((Px(BALL_INITIAL_SPEED) * m) \div 10), 100)],
              !.playerScore = 0, !.aiScore = 0, !.winScore = WIN_SCORE]

\* InitGame(game, mode) under multiplier m; r is the random value its
\* ResetBall(game, true) draws.
InitGame(g, md, m, r) ==
    [state |-> "Playing", mode |-> md, ball |-> ResetBall(TRUE, m, r),
     playerY |-> PaddleStartY, aiY |-> PaddleStartY,
     playerScore |-> 0, aiScore |-> 0, winScore |-> WIN_SCORE]

\* The serve draw: GetRandomValue(-100, 100) from generator state s.
ServeDraw(s) == RandomValue(NextRandom(s), -100, 100)

\* The draws of UpdateAI from generator state s: whether the imperfection
\* branch is taken, its GetRandomValue(-30, 30), and the state left.
AIDraws(s, m) ==
    LET s1 == NextRandom(s)
        errOn == RandomValue(s1, 0, 100) < ErrorThreshold(m)
        s2 == IF errOn THEN NextRandom(s1) ELSE s1
    IN  [errOn |-> errOn, e |-> IF errOn THEN RandomValue(s2, -30, 30) ELSE 0,
         rng |-> s2]

\* ScoreStep with the two sides' points exchanged: a variant C4 must reject.
ScoreStepSwapped(g, b, m, r) ==
    IF b.x < -Px(BALL_RADIUS)
    THEN [g EXCEPT !.playerScore = g.playerScore + 1,
                   !.ball = [x  |-> Px(SCREEN_WIDTH \div 2),
                             y  |-> Px(SCREEN_HEIGHT \div 2),
                             vx |-> -((Px(BALL_INITIAL_SPEED) * m) \div 10),
                             vy |-> TruncDiv(r * ((Px(BALL_INITIAL_SPEED) * m) \div 10), 100)]]
    ELSE IF b.x > Px(SCREEN_WIDTH) + Px(BALL_RADIUS)
         THEN [g EXCEPT !.aiScore = g.aiScore + 1,
                        !.ball = [x  |-> Px(SCREEN_WIDTH \div 2),
                                  y  |-> Px(SCREEN_HEIGHT \div 2),
                                  vx |-> (Px(BALL_INITIAL_SPEED) * m) \div 10,
                                  vy |-> TruncDiv(r * ((Px(BALL_INITIAL_SPEED) * m) \div 10), 100)]]
         ELSE [g EXCEPT !.ball = b]

\* The scoring step on the ball b left by the collision steps: the scores
\* and the ball after it; r is the random value of its ResetBall.
ScoreStep(g, b, m, r) ==
    IF OutLeft(b)
    THEN [g EXCEPT !.aiScore = g.aiScore + 1, !.ball = ResetBall(FALSE, m, r)]
    ELSE IF OutRight(b)
         THEN [g EXCEPT !.playerScore = g.playerScore + 1,
                        !.ball = ResetBall(TRUE, m, r)]
         ELSE [g EXCEPT !.ball = b]

\* WinCheck that looks at the player's score only: a variant C19 must
\* reject.
WinCheckPlayerOnly(g) ==
    IF g.playerScore >= g.winScore THEN [g EXCEPT !.state = "GameOver"] ELSE g

\* WinCheck that ends the match only above winScore: a variant C2 must
\* reject.
WinCheckStrict(g) ==
    IF g.playerScore > g.winScore \/ g.aiScore > g.winScore
    THEN [g EXCEPT !.state = "GameOver"]
    ELSE g

\* The game-over check that ends the Playing case.
WinCheck(g) ==
    IF g.playerScore >= g.winScore \/ g.aiScore >= g.winScore
    THEN [g EXCEPT !.state = "GameOver"]
    ELSE g

\* case STATE_PLAYING with the paddle tests run first, on the ball and the
\* paddles as the tick found them: a variant C17 must reject.
PlayStepCollideFirst(g, m, k, s) ==
    LET ai     == IF g.mode = "AI" THEN AIDraws(s, m)
                  ELSE [errOn |-> FALSE, e |-> 0, rng |-> s]
        hitP   == CheckPaddleCollision(g.ball, PlayerRect(g.playerY))
        afterP == IF hitP THEN PaddleHit(g.ball, g.playerY, 1, m) ELSE g.ball
        hitA   == CheckPaddleCollision(afterP, AIRect(g.aiY))
        struck == IF hitA THEN PaddleHit(afterP, g.aiY, -1, m) ELSE afterP
        pY     == MovePaddle(g.playerY, k[1], k[2])
        aY     == IF g.mode = "AI"
                  THEN UpdateAI(g.aiY, g.ball, m, ai.errOn, ai.e)
                  ELSE MovePaddle(g.aiY, k[3], k[4])
        moved  == IntegrateBall(struck)
        walled == WallResolve(moved)
        scored == IF OutLeft(walled) THEN "left"
                  ELSE IF OutRight(walled) THEN "right" ELSE "none"
        g1     == [g EXCEPT !.playerY = pY, !.aiY = aY]
        g2     == ScoreStep(g1, walled, m, ServeDraw(ai.rng))
    IN  [g |-> WinCheck(g2),
         rng |-> IF scored = "none" THEN ai.rng ELSE NextRandom(ai.rng),
         obs |-> [tick |-> "play", wall |-> TouchesWall(moved), hitP |-> hitP,
                  hitA |-> hitA, scored |-> scored, pre |-> g.ball,
                  moved |-> moved, walled |-> walled, afterP |-> walled,
                  struck |-> walled, preP |-> g.playerY, preA |-> g.aiY,
                  prePS |-> g.playerScore, preAS |-> g.aiScore, mult |-> m]]

\* case STATE_PLAYING in which UP and DOWN move the second paddle in AI
\* mode too, after the AI controller: a variant C26 must reject.
PlayStepKeysInAI(g, m, k, s) ==
    LET ai     == IF g.mode = "AI" THEN AIDraws(s, m)
                  ELSE [errOn |-> FALSE, e |-> 0, rng |-> s]
        pY     == MovePaddle(g.playerY, k[1], k[2])
        aY     == IF g.mode = "AI"
                  THEN MovePaddle(UpdateAI(g.aiY, g.ball, m, ai.errOn, ai.e),
                                  k[3], k[4])
                  ELSE MovePaddle(g.aiY, k[3], k[4])
        moved  == IntegrateBall(g.ball)
        walled == WallResolve(moved)
        hitP   == CheckPaddleCollision(walled, PlayerRect(pY))
        afterP == IF hitP THEN PaddleHit(walled, pY, 1, m) ELSE walled
        hitA   == CheckPaddleCollision(afterP, AIRect(aY))
        struck == IF hitA THEN PaddleHit(afterP, aY, -1, m) ELSE afterP
        scored == IF OutLeft(struck) THEN "left"
                  ELSE IF OutRight(struck) THEN "right" ELSE "none"
        g1     == [g EXCEPT !.playerY = pY, !.aiY = aY]
        g2     == ScoreStep(g1, struck, m, ServeDraw(ai.rng))
    IN  [g |-> WinCheck(g2),
         rng |-> IF scored = "none" THEN ai.rng ELSE NextRandom(ai.rng),
         obs |-> [tick |-> "play", wall |-> TouchesWall(moved), hitP |-> hitP,
                  hitA |-> hitA, scored |-> scored, pre |-> g.ball,
                  moved |-> moved, walled |-> walled, afterP |-> afterP,
                  struck |-> struck, preP |-> g.playerY, preA |-> g.aiY,
                  prePS |-> g.playerScore, preAS |-> g.aiScore, mult |-> m]]

\* case STATE_PLAYING of UpdateGame when P is not pressed: paddles, ball
\* integration, wall, the two paddle checks, scoring, game-over check.
\* k is the held keys and s the generator state.  The result carries the
\* intermediate values for the observation record.
PlayStep(g, m, k, s) ==
    LET ai     == IF g.mode = "AI" THEN AIDraws(s, m)
                  ELSE [errOn |-> FALSE, e |-> 0, rng |-> s]
        pY     == MovePaddle(g.playerY, k[1], k[2])
        aY     == IF g.mode = "AI"
                  THEN UpdateAI(g.aiY, g.ball, m, ai.errOn, ai.e)
                  ELSE MovePaddle(g.aiY, k[3], k[4])
        moved  == IntegrateBall(g.ball)
        walled == WallResolve(moved)
        hitP   == CheckPaddleCollision(walled, PlayerRect(pY))
        afterP == IF hitP THEN PaddleHit(walled, pY, 1, m) ELSE walled
        hitA   == CheckPaddleCollision(afterP, AIRect(aY))
        struck == IF hitA THEN PaddleHit(afterP, aY, -1, m) ELSE afterP
        scored == IF OutLeft(struck) THEN "left"
                  ELSE IF OutRight(struck) THEN "right" ELSE "none"
        g1     == [g EXCEPT !.playerY = pY, !.aiY = aY]
        g2     == ScoreStep(g1, struck, m, ServeDraw(ai.rng))
    IN  [g |-> WinCheck(g2),
         rng |-> IF scored = "none" THEN ai.rng ELSE NextRandom(ai.rng),
         obs |-> [tick |-> "play", wall |-> TouchesWall(moved), hitP |-> hitP,
                  hitA |-> hitA, scored |-> scored, pre |-> g.ball,
                  moved |-> moved, walled |-> walled, afterP |-> afterP,
                  struck |-> struck, preP |-> g.playerY, preA |-> g.aiY,
                  prePS |-> g.playerScore, preAS |-> g.aiScore, mult |-> m]]

(* ------------------------------------------------------------------ *)
(* UpdateModeSelect                                                    *)
(* ------------------------------------------------------------------ *)

\* The rectangles of UpdateModeSelect, in pixels.
SliderBg == [x |-> SCREEN_WIDTH \div 2 - 150, y |-> (SCREEN_HEIGHT * 3) \div 4,
             w |-> 300, h |-> 20]

SliderHitArea == [x |-> SliderBg.x, y |-> SliderBg.y - 10,
                  w |-> SliderBg.w, h |-> SliderBg.h + 20]

Mode1Bounds == [x |-> SCREEN_WIDTH \div 2 - 200, y |-> SCREEN_HEIGHT \div 2 - 30,
                w |-> 400, h |-> 60]

Mode2Bounds == [x |-> SCREEN_WIDTH \div 2 - 200, y |-> SCREEN_HEIGHT \div 2 + 30,
                w |-> 400, h |-> 60]

\* SliderValue without the clamp of relativeX: a variant C20 must reject.
SliderValueUnclamped(mx) == (mx - SliderBg.x + 110) \div 20

\* The multiplier the slider gives for mouse x, in tenths:
\* roundf((0.5 + relativeX / width * 1.5) * 10) = round(5 + relativeX / 20).
SliderValue(mx) ==
    LET relativeX == Clamp(mx - SliderBg.x, 0, SliderBg.w)
    IN  (relativeX + 110) \div 20

\* Whether the slider branch of UpdateModeSelect runs.
SliderActive(down, drag, pos) ==
    down /\ (drag \/ CheckCollisionPointRec(pos[1], pos[2], SliderHitArea))

\* UpdateModeSelect on game g: the mode keys, then the slider, then the
\* mode buttons.  The result carries the multiplier, the dragging flag and
\* the generator state it leaves, and whether InitGame ran.
ModeSelectStep(g, m, drag, s, key1, key2, down, pressed, pos) ==
    LET byKey   == key1 \/ key2
        g1      == IF key1 THEN InitGame(g, "AI", m, ServeDraw(s))
                   ELSE IF key2 THEN InitGame(g, "Multi", m, ServeDraw(s))
                   ELSE g
        s1      == IF byKey THEN NextRandom(s) ELSE s
        slide   == SliderActive(down, drag, pos)
        m1      == IF slide THEN SliderValue(pos[1]) ELSE m
        click1  == pressed /\ CheckCollisionPointRec(pos[1], pos[2], Mode1Bounds)
        click2  == pressed /\ ~click1
                   /\ CheckCollisionPointRec(pos[1], pos[2], Mode2Bounds)
        byClick == click1 \/ click2
        g2      == IF click1 THEN InitGame(g1, "AI", m1, ServeDraw(s1))
                   ELSE IF click2 THEN InitGame(g1, "Multi", m1, ServeDraw(s1))
                   ELSE g1
    IN  [g |-> g2, mult |-> m1,
         dragging |-> IF down THEN (drag \/ slide) ELSE FALSE,
         rng |-> IF byClick THEN NextRandom(s1) ELSE s1,
         init |-> byKey \/ byClick]

(* ------------------------------------------------------------------ *)
(* State, initial state and the per-frame actions of main's loop       *)
(* ------------------------------------------------------------------ *)

\* The observation left when no physics tick of the match has run yet.
NoPlay(tick, m) ==
    [tick |-> tick, wall |-> FALSE, hitP |-> FALSE, hitA |-> FALSE,
     scored |-> "none", pre |-> ZeroBall, moved |-> ZeroBall,
     walled |-> ZeroBall, afterP |-> ZeroBall, struck |-> ZeroBall,
     preP |-> 0, preA |-> 0, prePS |-> 0, preAS |-> 0, mult |-> m]

\* The rally record after a serve: no paddle has hit the ball since it was
\* served (hitter, and prev, its value one physics tick earlier), and no
\* physics tick has run since (quiet).
NoRally == [hitter |-> "none", prev |-> "none", quiet |-> 0]

\* The rally record after a physics tick that left the observation obs.  A
\* point re-serves the ball (ResetBall) and so starts a new rally; else a
\* hit makes its paddle the last hitter, the second paddle's hit being the
\* later of the tick; quiet counts the consecutive physics ticks without a
\* paddle hit or a point.
RallyStep(r, obs) ==
    [hitter |-> IF obs.scored # "none" THEN "none"
                ELSE IF obs.hitA THEN "A"
                ELSE IF obs.hitP THEN "P"
                ELSE r.hitter,
     prev   |-> r.hitter,
     quiet  |-> IF obs.scored # "none" \/ obs.hitP \/ obs.hitA THEN 0
                ELSE r.quiet + 1]

\* Writes the record g back to the variables that hold the Game struct.
Store(g) ==
    /\ state' = g.state
    /\ mode' = g.mode
    /\ ball' = g.ball
    /\ playerY' = g.playerY
    /\ aiY' = g.aiY
    /\ playerScore' = g.playerScore
    /\ aiScore' = g.aiScore
    /\ winScore' = g.winScore

\* main: Game game = {0}; state = STATE_SPLASH; ballSpeedMultiplier = 1.0f.
Init ==
    /\ state = "Splash"
    /\ mode = "AI"
    /\ ball = ZeroBall
    /\ playerY = 0
    /\ aiY = 0
    /\ playerScore = 0
    /\ aiScore = 0
    /\ winScore = 0
    /\ mult = 10
    /\ dragging = FALSE
    /\ mouseWasDown = FALSE
    /\ keys = <<FALSE, FALSE, FALSE, FALSE>>
    /\ rng \in Seeds
    /\ ticks = 0
    /\ last = NoPlay("none", 10)
    /\ rally = NoRally
    /\ particles = << >>
    /\ screenShake = 0
    /\ shakeOffset = <<0, 0>>
    /\ fxpc = "update"
    /\ fxlast = [event |-> "none", pool |-> 0, rng |-> rng]
    /\ frames = 0

\* UpdateSplashScreen that starts play directly: a variant C1 must reject.
SplashTickToGame ==
    /\ state = "Splash"
    /\ \E down \in BOOLEAN, space \in BOOLEAN :
          /\ state' = IF (down /\ ~mouseWasDown) \/ space THEN "Playing" ELSE state
          /\ mouseWasDown' = down
    /\ UNCHANGED << mode, ball, playerY, aiY, playerScore, aiScore, winScore,
                    mult, dragging, keys, rng, ticks, last, rally >>
    /\ UNCHANGED fx

\* A frame in STATE_SPLASH: UpdateSplashScreen.
SplashTick ==
    /\ state = "Splash"
    /\ \E down \in BOOLEAN, space \in BOOLEAN :
          LET pressed == down /\ ~mouseWasDown
          IN  /\ state' = IF pressed \/ space THEN "ModeSelect" ELSE state
              /\ mouseWasDown' = down
    /\ UNCHANGED << mode, ball, playerY, aiY, playerScore, aiScore, winScore,
                    mult, dragging, keys, rng, ticks, last, rally >>
    /\ UNCHANGED fx

\* A frame in STATE_MODE_SELECT: UpdateModeSelect.  key1/key2 are the
\* mode keys, down and pos the left button and the mouse position.
ModeSelectTick ==
    /\ state = "ModeSelect"
    /\ \E key1 \in BOOLEAN, key2 \in BOOLEAN, down \in BOOLEAN,
          pos \in MousePositions :
          \E res \in { ModeSelectStep(Game, mult, dragging, rng, key1, key2,
                                      down, down /\ ~mouseWasDown, pos) } :
             /\ Store(res.g)
             /\ mult' = res.mult
             /\ dragging' = res.dragging
             /\ rng' = res.rng
             /\ mouseWasDown' = down
             /\ ticks' = IF res.init THEN 0 ELSE ticks
             /\ last' = IF res.init THEN NoPlay("init", res.mult) ELSE last
             /\ rally' = IF res.init THEN NoRally ELSE rally
             /\ IF res.init THEN keys' \in KeyHolds ELSE keys' = keys
    /\ UNCHANGED fx

\* A frame in STATE_PLAYING with P pressed: the pause toggle returns
\* before any physics.
PauseTick ==
    /\ state = "Playing"
    /\ state' = "Paused"
    /\ mouseWasDown' = FALSE
    /\ UNCHANGED << mode, ball, playerY, aiY, playerScore, aiScore, winScore,
                    mult, dragging, keys, rng, ticks, last, rally >>
    /\ UNCHANGED fx

\* A frame in STATE_PLAYING without P: the physics tick.
PlayTick ==
    /\ state = "Playing"
    /\ ticks < MaxTicks
    /\ \E res \in { PlayStep(Game, mult, keys, rng) } :
          /\ Store(res.g)
          /\ rng' = res.rng
          /\ last' = res.obs
          /\ rally' = RallyStep(rally, res.obs)
    /\ ticks' = ticks + 1
    /\ mouseWasDown' = FALSE
    /\ UNCHANGED << mult, dragging, keys >>
    /\ UNCHANGED fx

\* STATE_PAUSED that keeps moving the ball and the player paddle: a
\* variant C13 must reject.
PausedTickPhysics ==
    /\ state = "Paused"
    /\ \E keyP \in BOOLEAN : state' = IF keyP THEN "Playing" ELSE "Paused"
    /\ ball' = [ball EXCEPT !.x = ball.x + ball.vx, !.y = ball.y + ball.vy]
    /\ playerY' = playerY + (IF keys[2] THEN Px(PADDLE_SPEED) ELSE 0)
                          - (IF keys[1] THEN Px(PADDLE_SPEED) ELSE 0)
    /\ mouseWasDown' = FALSE
    /\ UNCHANGED << mode, aiY, playerScore, aiScore, winScore,
                    mult, dragging, keys, rng, ticks, last, rally >>
    /\ UNCHANGED fx

\* A frame in STATE_PAUSED: P resumes, anything else changes nothing.
PausedTick ==
    /\ state = "Paused"
    /\ \E keyP \in BOOLEAN : state' = IF keyP THEN "Playing" ELSE "Paused"
    /\ mouseWasDown' = FALSE
    /\ UNCHANGED << mode, ball, playerY, aiY, playerScore, aiScore, winScore,
                    mult, dragging, keys, rng, ticks, last, rally >>
    /\ UNCHANGED fx

\* case STATE_GAME_OVER with the menu key tested first: a variant C14 must
\* reject.
GameOverStepMenuFirst(g, m, r, keyR, keyM) ==
    IF keyM THEN [g EXCEPT !.state = "ModeSelect"]
    ELSE IF keyR
         THEN [g EXCEPT !.state = "Playing", !.playerScore = 0, !.aiScore = 0,
                        !.playerY = Px(300), !.aiY = Px(300),
                        !.ball = [x |-> Px(640), y |-> Px(400),
                                  vx |-> (Px(BALL_INITIAL_SPEED) * m) \div 10,
                                  vy |-> TruncDiv(r * ((Px(BALL_INITIAL_SPEED) * m) \div 10), 100)]]
         ELSE g

\* case STATE_GAME_OVER of UpdateGame on game g: R restarts in the same
\* mode, else M goes to the menu; r is the random value of the restart's
\* ResetBall.
GameOverStep(g, m, r, keyR, keyM) ==
    IF keyR THEN InitGame(g, g.mode, m, r)
    ELSE IF keyM THEN [g EXCEPT !.state = "ModeSelect"]
    ELSE g

\* STATE_GAME_OVER that reads no key: a variant C18 must reject.
GameOverTickStuck ==
    /\ state = "GameOver"
    /\ mouseWasDown' = FALSE
    /\ UNCHANGED << state, mode, ball, playerY, aiY, playerScore, aiScore,
                    winScore, mult, dragging, keys, rng, ticks, last, rally >>
    /\ UNCHANGED fx

\* STATE_GAME_OVER whose return to the menu clears the scores: a variant
\* C5 must reject.
GameOverTickMenuClears ==
    /\ state = "GameOver"
    /\ \E keyR \in BOOLEAN, keyM \in BOOLEAN :
          /\ state' = IF keyR THEN "Playing" ELSE IF keyM THEN "ModeSelect" ELSE state
          /\ playerScore' = IF keyR \/ keyM THEN 0 ELSE playerScore
          /\ aiScore' = IF keyR \/ keyM THEN 0 ELSE aiScore
          /\ ball' = IF keyR
                     THEN [x  |-> Px(SCREEN_WIDTH \div 2),
                           y  |-> Px(SCREEN_HEIGHT \div 2),
                           vx |-> (Px(BALL_INITIAL_SPEED) * mult) \div 10,
                           vy |-> 0]
                     ELSE ball
          /\ playerY' = IF keyR THEN Px(300) ELSE playerY
          /\ aiY' = IF keyR THEN Px(300) ELSE aiY
          /\ ticks' = IF keyR THEN 0 ELSE ticks
          /\ last' = IF keyR
                     THEN [last EXCEPT !.tick = "init", !.scored = "none",
                                       !.wall = FALSE, !.hitP = FALSE, !.hitA = FALSE]
                     ELSE last
          /\ rally' = IF keyR THEN NoRally ELSE rally
    /\ mouseWasDown' = FALSE
    /\ UNCHANGED << mode, winScore, mult, dragging, keys, rng >>
    /\ UNCHANGED fx

\* A frame in STATE_GAME_OVER: R restarts in the same mode, else M goes to
\* the menu.
GameOverTick ==
    /\ state = "GameOver"
    /\ \E keyR \in BOOLEAN, keyM \in BOOLEAN :
          LET g1 == GameOverStep(Game, mult, ServeDraw(rng), keyR, keyM)
          IN  /\ Store(g1)
              /\ rng' = IF keyR THEN NextRandom(rng) ELSE rng
              /\ ticks' = IF keyR THEN 0 ELSE ticks
              /\ last' = IF keyR THEN NoPlay("restart", mult) ELSE last
              /\ rally' = IF keyR THEN NoRally ELSE rally
              /\ IF keyR THEN keys' \in KeyHolds ELSE keys' = keys
    /\ mouseWasDown' = FALSE
    /\ UNCHANGED << mult, dragging >>
    /\ UNCHANGED fx

Next ==
    \/ SplashTick
    \/ ModeSelectTick
    \/ PauseTick
    \/ PlayTick
    \/ PausedTick
    \/ GameOverTick

Spec == Init /\ [][Next]_vars

(* ------------------------------------------------------------------ *)
(* Presentation state: particle pool and screen shake                  *)
(*                                                                     *)
(* Spec follows the simulation fields of Game and leaves the particle  *)
(* pool and the shake scalars as constructed.  FxSpec follows those:   *)
(* each frame is an update half, in which the events that touch them   *)
(* (a paddle hit, a score, InitGame) are chosen freely, more freely    *)
(* than a match produces them, and a draw half, DrawGame.  FxSpec      *)
(* leaves the simulation fields alone.  Times are in milliseconds, the *)
(* shake in thousandths.                                               *)
(* ------------------------------------------------------------------ *)

\* CreateParticleEffect without the capacity test: a variant C12 must
\* reject.
RECURSIVE CreateParticleEffectNoCap(_, _, _, _, _)
CreateParticleEffectNoCap(ps, px, py, count, s) ==
    IF count > 0
    THEN LET s4 == NextRandom(NextRandom(NextRandom(NextRandom(s))))
             p  == [x |-> px, y |-> py, vx |-> 0, vy |-> 0, lifeTime |-> 0,
                    maxLifeTime |-> 10 * RandomValue(s4, 30, 90), size |-> 2]
         IN  CreateParticleEffectNoCap(Append(ps, p), px, py, count - 1, s4)
    ELSE [particles |-> ps, rng |-> s]

\* CreateParticleEffect that emits a burst only when all of it fits: a
\* variant C29 must reject.
RECURSIVE CreateParticleEffectWhole(_, _, _, _, _)
CreateParticleEffectWhole(ps, px, py, count, s) ==
    IF count > 0 /\ Len(ps) + count <= MAX_PARTICLES
    THEN LET s1 == NextRandom(s)
             s2 == NextRandom(s1)
             s3 == NextRandom(s2)
             s4 == NextRandom(s3)
             p  == [x |-> px, y |-> py,
                    vx |-> RandomValue(s1, -200, 200),
                    vy |-> RandomValue(s2, -200, 200),
                    lifeTime |-> 0,
                    maxLifeTime |-> 10 * RandomValue(s3, 30, 90),
                    size |-> RandomValue(s4, 2, 6)]
         IN  CreateParticleEffectWhole(Append(ps, p), px, py, count - 1, s4)
    ELSE [particles |-> ps, rng |-> s]

\* CreateParticleEffect(game, position, color, count) on the live
\* particles ps with generator state s: the pool and the generator state
\* it leaves.  Each particle takes four draws, in source order: velocity
\* x, velocity y, maxLifeTime, size.
RECURSIVE CreateParticleEffect(_, _, _, _, _)
CreateParticleEffect(ps, px, py, count, s) ==
    IF count > 0 /\ Len(ps) < MAX_PARTICLES
    THEN LET s1 == NextRandom(s)
             s2 == NextRandom(s1)
             s3 == NextRandom(s2)
             s4 == NextRandom(s3)
             p  == [x |-> px, y |-> py,
                    vx |-> RandomValue(s1, -200, 200),
                    vy |-> RandomValue(s2, -200, 200),
                    lifeTime |-> 0,
                    maxLifeTime |-> 10 * RandomValue(s3, 30, 90),
                    size |-> RandomValue(s4, 2, 6)]
         IN  CreateParticleEffect(Append(ps, p), px, py, count - 1, s4)
    ELSE [particles |-> ps, rng |-> s]

\* ParticleLoop that drops a particle only once its lifetime has passed its
\* maximum: a variant C28 must reject.
RECURSIVE ParticleLoopLate(_, _, _, _, _)
ParticleLoopLate(arr, n, i, k, deltaTime) ==
    IF i > n THEN SubSeq(arr, 1, k)
    ELSE LET aged == [arr[i] EXCEPT !.lifeTime = @ + deltaTime]
         IN  IF aged.lifeTime > aged.maxLifeTime
             THEN ParticleLoopLate([arr EXCEPT ![i] = aged], n, i + 1, k, deltaTime)
             ELSE LET p == [aged EXCEPT !.x = @ + aged.vx, !.y = @ + aged.vy]
                  IN  ParticleLoopLate([[arr EXCEPT ![i] = p] EXCEPT ![k + 1] = p],
                                       n, i + 1, k + 1, deltaTime)

\* The loop of UpdateAndDrawParticles on the array arr of n live particles,
\* at index i with particlesToKeep = k: ages each particle in place, skips
\* the dead, moves the living and copies them down to slot k.
RECURSIVE ParticleLoop(_, _, _, _, _)
ParticleLoop(arr, n, i, k, deltaTime) ==
    IF i > n THEN SubSeq(arr, 1, k)
    ELSE LET aged == [arr[i] EXCEPT !.lifeTime = @ + deltaTime]
         IN  IF aged.lifeTime >= aged.maxLifeTime
             THEN ParticleLoop([arr EXCEPT ![i] = aged], n, i + 1, k, deltaTime)
             ELSE LET p == [aged EXCEPT !.x = @ + aged.vx, !.y = @ + aged.vy]
                      kept == [[arr EXCEPT ![i] = p] EXCEPT ![k + 1] = p]
                  IN  ParticleLoop(kept, n, i + 1, k + 1, deltaTime)

\* UpdateAndDrawParticles(game) with GetFrameTime() = deltaTime: the live
\* particles it leaves.
UpdateAndDrawParticles(ps, deltaTime) == ParticleLoop(ps, Len(ps), 1, 0, deltaTime)

\* The screen-shake step that opens DrawGame: the shake, the offset and the
\* generator state it leaves.
ShakeStep(shake, offset, s) ==
    LET damped == (shake * 9) \div 10
        s1 == NextRandom(s)
        s2 == NextRandom(s1)
    IN  IF damped > 100
        THEN [screenShake |-> damped,
              shakeOffset |-> << TruncDiv(RandomValue(s1, -10, 10) * damped, 10),
                                 TruncDiv(RandomValue(s2, -10, 10) * damped, 10) >>,
              rng |-> s2]
        ELSE [screenShake |-> 0, shakeOffset |-> <<0, 0>>, rng |-> s]

\* The update half of a frame in which nothing touches the presentation
\* fields.
FxQuietTick ==
    /\ fxpc = "update"
    /\ fxpc' = "draw"
    /\ fxlast' = [event |-> "quiet", pool |-> Len(particles), rng |-> rng]
    /\ UNCHANGED << particles, screenShake, shakeOffset, frames, rng >>
    /\ UNCHANGED sim

\* The update half of a frame with a paddle hit: screenShake = 5.0f and a
\* burst of 15 particles at the ball.
FxHitTick ==
    /\ fxpc = "update"
    /\ \E res \in { CreateParticleEffect(particles, ball.x, ball.y, 15, rng) } :
          /\ particles' = res.particles
          /\ rng' = res.rng
    /\ screenShake' = 5000
    /\ fxpc' = "draw"
    /\ fxlast' = [event |-> "hit", pool |-> Len(particles), rng |-> rng]
    /\ UNCHANGED << shakeOffset, frames >>
    /\ UNCHANGED sim

\* The update half of a frame with a score: ResetBall draws the serve angle
\* and emits 30 particles at the centre.
FxScoreTick ==
    /\ fxpc = "update"
    /\ \E res \in { CreateParticleEffect(particles, Px(SCREEN_WIDTH \div 2),
                                        Px(SCREEN_HEIGHT \div 2), 30,
                                        NextRandom(rng)) } :
          /\ particles' = res.particles
          /\ rng' = res.rng
    /\ fxpc' = "draw"
    /\ fxlast' = [event |-> "score", pool |-> Len(particles), rng |-> rng]
    /\ UNCHANGED << screenShake, shakeOffset, frames >>
    /\ UNCHANGED sim

\* InitGame that zeroes activeParticles before its ResetBall, so that the
\* serve's burst stays live: a variant C33 must reject.
FxInitGameZeroFirst ==
    /\ fxpc = "update"
    /\ \E res \in { CreateParticleEffect(<< >>, Px(SCREEN_WIDTH \div 2),
                                        Px(SCREEN_HEIGHT \div 2), 30,
                                        NextRandom(rng)) } :
          /\ particles' = res.particles
          /\ rng' = res.rng
    /\ screenShake' = 0
    /\ shakeOffset' = <<0, 0>>
    /\ fxpc' = "draw"
    /\ fxlast' = [event |-> "init", pool |-> Len(particles), rng |-> rng]
    /\ UNCHANGED frames
    /\ UNCHANGED sim

\* The update half of a frame that runs InitGame: its ResetBall emits 30
\* particles, then activeParticles, screenShake and shakeOffset are zeroed.
FxInitGame ==
    /\ fxpc = "update"
    /\ \E res \in { CreateParticleEffect(particles, Px(SCREEN_WIDTH \div 2),
                                        Px(SCREEN_HEIGHT \div 2), 30,
                                        NextRandom(rng)) } :
          rng' = res.rng
    /\ particles' = << >>
    /\ screenShake' = 0
    /\ shakeOffset' = <<0, 0>>
    /\ fxpc' = "draw"
    /\ fxlast' = [event |-> "init", pool |-> Len(particles), rng |-> rng]
    /\ UNCHANGED frames
    /\ UNCHANGED sim

\* The draw half of a frame: DrawGame, which damps the shake and runs
\* UpdateAndDrawParticles.
FxDrawGame ==
    /\ fxpc = "draw"
    /\ frames < MaxFrames
    /\ \E deltaTime \in FrameTimes :
          \E sh \in { ShakeStep(screenShake, shakeOffset, rng) } :
             /\ screenShake' = sh.screenShake
             /\ shakeOffset' = sh.shakeOffset
             /\ rng' = sh.rng
             /\ particles' = UpdateAndDrawParticles(particles, deltaTime)
    /\ fxpc' = "update"
    /\ frames' = frames + 1
    /\ UNCHANGED fxlast
    /\ UNCHANGED sim

FxNext ==
    \/ FxQuietTick
    \/ FxHitTick
    \/ FxScoreTick
    \/ FxInitGame
    \/ FxDrawGame

FxSpec == Init /\ [][FxNext]_vars

(* ------------------------------------------------------------------ *)
(* Properties                                                          *)
(* ------------------------------------------------------------------ *)

\* The phase changes section 4.1 lists.
LegalPhaseChanges ==
    { <<"Splash", "ModeSelect">>, <<"ModeSelect", "Playing">>,
      <<"Playing", "Paused">>, <<"Paused", "Playing">>,
      <<"Playing", "GameOver">>, <<"GameOver", "Playing">>,
      <<"GameOver", "ModeSelect">> }

\* The fields a physics update writes: ball, paddles, scores.
Physics == << ball, playerY, aiY, playerScore, aiScore >>

\* C1: the run starts in Splash and every phase change of every step is
\* one of the seven legal ones.
C1_PhaseChanges ==
    /\ state = "Splash"
    /\ [][state' # state => <<state, state'>> \in LegalPhaseChanges]_vars

\* C1 witness: the menu reached from a finished match, which takes
\* Splash -> ModeSelect -> Playing -> GameOver -> ModeSelect.
C1_Witness ==
    /\ state = "ModeSelect"
    /\ winScore = WIN_SCORE
    /\ (playerScore >= winScore \/ aiScore >= winScore)

\* C2: the physics tick in which a score reaches winScore ends in GameOver,
\* and from GameOver on (also through the menu) a step changes ball,
\* paddles or scores only by starting a match.
C2_WinMonotone ==
    [][ /\ (/\ state = "Playing"
            /\ ticks' = ticks + 1
            /\ (playerScore' >= winScore' \/ aiScore' >= winScore'))
           => state' = "GameOver"
        /\ (state \in {"GameOver", "ModeSelect"} /\ state' # "Playing")
           => UNCHANGED Physics
        /\ (state \in {"GameOver", "ModeSelect"} /\ state' = "Playing")
           => (playerScore' = 0 /\ aiScore' = 0) ]_vars

\* C2 witness: GameOver right after the physics tick that scored the
\* winning point.
C2_Witness ==
    /\ state = "GameOver"
    /\ last.tick = "play"
    /\ last.scored # "none"
    /\ (playerScore = winScore \/ aiScore = winScore)

\* C3: while Playing or Paused both scores are below winScore; in GameOver
\* exactly one score equals winScore and none exceeds it.
C3_MatchEndsAtWinScore ==
    /\ state \in {"Playing", "Paused"}
          => (playerScore < winScore /\ aiScore < winScore)
    /\ state = "GameOver"
          => /\ playerScore <= winScore
             /\ aiScore <= winScore
             /\ (playerScore = winScore) # (aiScore = winScore)

\* C3 witness: a match the second paddle's side won.
C3_Witness ==
    /\ state = "GameOver"
    /\ aiScore = WIN_SCORE
    /\ playerScore < WIN_SCORE

\* C4: a physics tick changes at most one score, by exactly 1: the right
\* side's (aiScore) when the integrated ball is left of -radius, the left
\* side's (playerScore) when it is right of screenWidth + radius, none
\* otherwise.
C4_ScoringExclusive ==
    last.tick = "play" =>
        LET dP    == playerScore - last.prePS
            dA    == aiScore - last.preAS
            x1    == last.pre.x + last.pre.vx
            left  == x1 < -Px(BALL_RADIUS)
            right == x1 > Px(SCREEN_WIDTH) + Px(BALL_RADIUS)
        IN  /\ dP \in {0, 1}
            /\ dA \in {0, 1}
            /\ dP + dA <= 1
            /\ left => (dA = 1 /\ dP = 0)
            /\ right => (dP = 1 /\ dA = 0)
            /\ (~left /\ ~right) => (dP = 0 /\ dA = 0)

\* C4 witness: a tick that scored over the left edge in a match in which
\* the right edge has been crossed too.
C4_Witness ==
    /\ last.tick = "play"
    /\ last.scored = "left"
    /\ aiScore = last.preAS + 1
    /\ playerScore > 0

\* C5: scores are never negative; a step either starts a match (scores 0)
\* or leaves each score at least what it was, and changes one only from
\* Playing.
C5_ScoresMonotone ==
    /\ [](playerScore >= 0 /\ aiScore >= 0)
    /\ [][ IF state \in {"ModeSelect", "GameOver"} /\ state' = "Playing"
           THEN playerScore' = 0 /\ aiScore' = 0
           ELSE /\ playerScore' >= playerScore
                /\ aiScore' >= aiScore
                /\ <<playerScore', aiScore'>> # <<playerScore, aiScore>>
                      => state = "Playing" ]_vars

\* C5 witness: a match under way in which three points have been scored.
C5_Witness ==
    /\ state = "Playing"
    /\ playerScore + aiScore >= 3

\* C6: both paddles stay within [0, screenHeight - paddleHeight].
C6_PaddlesInBounds ==
    /\ 0 <= playerY
    /\ playerY <= Px(SCREEN_HEIGHT - PADDLE_HEIGHT)
    /\ 0 <= aiY
    /\ aiY <= Px(SCREEN_HEIGHT - PADDLE_HEIGHT)

\* C6 witness: W held with the player paddle already at the top, so the
\* clamp acted, in AI mode with the AI paddle moved off its start.
C6_Witness ==
    /\ last.tick = "play"
    /\ mode = "AI"
    /\ keys[1] /\ ~keys[2]
    /\ last.preP = 0
    /\ playerY = 0
    /\ aiY # PaddleStartY

\* C7: a paddle hit sets the horizontal speed to
\* min(|old| + SPEED_INCREMENT, MAX_BALL_SPEED * multiplier), positive
\* after a player-paddle hit and negative after a second-paddle hit.
C7_HitSpeed ==
    last.tick = "play" =>
        LET cap == (Px(MAX_BALL_SPEED) * last.mult) \div 10
            new(old) == IF Abs(old) + SPEED_INCREMENT < cap
                        THEN Abs(old) + SPEED_INCREMENT ELSE cap
        IN  /\ last.hitP => last.afterP.vx = new(last.pre.vx)
            /\ last.hitA => last.struck.vx = -new(last.afterP.vx)
            /\ last.hitP => last.afterP.vx > 0
            /\ last.hitA => last.struck.vx < 0
            /\ (last.scored = "none" /\ (last.hitP \/ last.hitA))
                  => ball.vx = last.struck.vx

\* C7 witness: a second-paddle hit that the cap limited.
C7_Witness ==
    /\ last.tick = "play"
    /\ last.hitA
    /\ Abs(last.afterP.vx) + SPEED_INCREMENT > AdjustedMaxSpeed(last.mult)
    /\ ball.vx = -AdjustedMaxSpeed(last.mult)

\* C8: a paddle hit never lowers the horizontal speed, and while Playing
\* the speed is at most MAX_BALL_SPEED * multiplier.
C8_SpeedRatchet ==
    /\ last.tick = "play" =>
          /\ last.hitP => Abs(last.afterP.vx) >= Abs(last.pre.vx)
          /\ last.hitA => Abs(last.struck.vx) >= Abs(last.afterP.vx)
    /\ state = "Playing" => Abs(ball.vx) <= AdjustedMaxSpeed(mult)

\* C9 as first stated: a tick whose integrated ball touches a wall ends
\* with the vertical velocity's sign flipped and y inside
\* [radius, screenHeight - radius].
C9_WallFlipWholeTick ==
    (last.tick = "play" /\ last.wall) =>
        /\ Sign(ball.vy) = -Sign(last.pre.vy)
        /\ Px(BALL_RADIUS) <= ball.y
        /\ ball.y <= Px(SCREEN_HEIGHT) - Px(BALL_RADIUS)

\* C9 amended: on such a tick the wall step inverts the vertical velocity
\* once and leaves y inside [radius, screenHeight - radius]; the tick ends
\* with that velocity and position unless a paddle hit or a score of the
\* same tick replaces the velocity; y at the end of the tick is inside the
\* range in every case.  The spec's example: velocity (-8, 3) at y = 795
\* gives vertical velocity -3 and y <= 778.
C9_WallFlip ==
    /\ (last.tick = "play" /\ last.wall) =>
          /\ last.moved.vy = last.pre.vy
          /\ last.moved.vy # 0
          /\ last.walled.vy = -last.moved.vy
          /\ Px(BALL_RADIUS) <= last.walled.y
          /\ last.walled.y <= Px(SCREEN_HEIGHT) - Px(BALL_RADIUS)
          /\ Px(BALL_RADIUS) <= ball.y
          /\ ball.y <= Px(SCREEN_HEIGHT) - Px(BALL_RADIUS)
          /\ (~last.hitP /\ ~last.hitA /\ last.scored = "none")
                => (ball.vy = -last.pre.vy /\ ball.y = last.walled.y)
    /\ LET b == WallResolve(IntegrateBall(
                    [x |-> Px(640), y |-> Px(795), vx |-> -Px(8), vy |-> Px(3)]))
       IN  b.vy = -Px(3) /\ b.y <= Px(778)

\* C9 witness: a tick that crossed the bottom wall with no paddle hit and
\* no score, the ball put back inside.
C9_Witness ==
    /\ last.tick = "play"
    /\ last.wall
    /\ last.moved.y > Px(SCREEN_HEIGHT) - Px(BALL_RADIUS)
    /\ ~last.hitP /\ ~last.hitA /\ last.scored = "none"
    /\ ball.y = Px(SCREEN_HEIGHT) - Px(BALL_RADIUS) - Px(WALL_BOUNCE_BUFFER)

\* C10: on a paddle hit the hit offset, ball y minus the paddle's vertical
\* centre over half the paddle height, is within [-1, 1].
C10_HitOffsetNormalized ==
    last.tick = "play" =>
        /\ last.hitP => Abs(HitOffset(last.walled, playerY)) <= HalfPaddle
        /\ last.hitA => Abs(HitOffset(last.afterP, aiY)) <= HalfPaddle

\* C11: whenever UpdateAI is about to run (Playing, AI mode) the predicted
\* interception y, after the wall-bounce folding, is within
\* [0, screenHeight].
C11_PredictionInBounds ==
    (state = "Playing" /\ mode = "AI") =>
        /\ 0 <= PredictedY(ball, aiY)
        /\ PredictedY(ball, aiY) <= Px(SCREEN_HEIGHT)

\* C12: the live particle count is within [0, MAX_PARTICLES] in every state,
\* and a DrawGame step, which runs the particle tick, never leaves it
\* larger than it was.
C12_PoolBounded ==
    /\ [](0 <= Len(particles) /\ Len(particles) <= MAX_PARTICLES)
    /\ [][fxpc = "draw" => Len(particles') <= Len(particles)]_vars

\* C12 witness: a full pool right after an emission that asked for more
\* than the free capacity, with a draw half about to run.
C12_Witness ==
    /\ fxpc = "draw"
    /\ Len(particles) = MAX_PARTICLES
    /\ particles[MAX_PARTICLES].lifeTime = 0
    /\ particles[1].lifeTime > 0

\* C13: a step taken in Paused, a step that enters Paused, and a GameOver
\* step that does not restart leave ball, paddles, scores and mode as
\* they were, whatever keys are held; so a pause of any length resumes
\* with the values it started from.
C13_NoPhysicsOutsidePlay ==
    [][ (\/ state = "Paused"
         \/ state' = "Paused"
         \/ (state = "GameOver" /\ state' # "Playing"))
        => UNCHANGED << ball, playerY, aiY, playerScore, aiScore, mode >> ]_vars

\* C13 witness: paused in mid-match with S held and the player paddle free
\* to move down, the ball in flight.
C13_Witness ==
    /\ state = "Paused"
    /\ ticks > 0
    /\ keys[2] /\ ~keys[1]
    /\ playerY < Px(SCREEN_HEIGHT - PADDLE_HEIGHT)
    /\ ball.vx # 0

\* C14: in GameOver, R gives Playing with the mode kept and both scores 0;
\* without R, M gives ModeSelect; without either phase, mode and scores
\* stay.  Every step out of a GameOver state is one of these three.
C14_GameOverTick ==
    /\ [](state = "GameOver" =>
            \A keyR \in BOOLEAN, keyM \in BOOLEAN :
               LET g == GameOverStep(Game, mult, ServeDraw(rng), keyR, keyM)
                   kept == /\ g.mode = mode
                           /\ g.playerScore = playerScore
                           /\ g.aiScore = aiScore
               IN  /\ keyR => /\ g.state = "Playing"
                              /\ g.mode = mode
                              /\ g.playerScore = 0
                              /\ g.aiScore = 0
                   /\ (~keyR /\ keyM) => (g.state = "ModeSelect" /\ kept)
                   /\ (~keyR /\ ~keyM) => (g.state = "GameOver" /\ kept))
    /\ [][ state = "GameOver" =>
              \/ /\ state' = "Playing"
                 /\ mode' = mode
                 /\ playerScore' = 0
                 /\ aiScore' = 0
              \/ /\ state' \in {"ModeSelect", "GameOver"}
                 /\ UNCHANGED << mode, playerScore, aiScore >> ]_vars

\* C14 witness: Playing at 0/0 right after the restart of a match that had
\* ended at winScore.
C14_Witness ==
    /\ state = "Playing"
    /\ last.tick = "restart"
    /\ winScore = WIN_SCORE
    /\ playerScore = 0
    /\ aiScore = 0

\* C15 as first stated: right after a match initialization (mode selected,
\* or restart) the ball is at the centre and moves to the left, toward the
\* player-one paddle.
C15_ServeTowardPlayer ==
    (state = "Playing" /\ last.tick \in {"init", "restart"}) =>
        /\ ball.x = Px(SCREEN_WIDTH \div 2)
        /\ ball.y = Px(SCREEN_HEIGHT \div 2)
        /\ ball.vx < 0

\* C15 amended: right after a match initialization the ball is at the
\* centre and moves to the right, away from the player-one paddle and
\* toward the AI / player-two paddle: player one serves.
C15_ServeFromPlayer ==
    (state = "Playing" /\ last.tick \in {"init", "restart"}) =>
        /\ ball.x = Px(SCREEN_WIDTH \div 2)
        /\ ball.y = Px(SCREEN_HEIGHT \div 2)
        /\ ball.vx > 0

\* C15 witness: a two-player match just started from the menu at
\* multiplier 1.0, the ball leaving the centre at 8 pixels a tick.
C15_Witness ==
    /\ state = "Playing"
    /\ last.tick = "init"
    /\ mode = "Multi"
    /\ ball.x = Px(SCREEN_WIDTH \div 2)
    /\ ball.vx = Px(BALL_INITIAL_SPEED)

\* C16: the draw half of a frame leaves the state the renderer reads as it
\* was: ball, paddles, scores, phase, mode, multiplier, the particle pool
\* and its live count, the shake scalars.
C16_RenderReadOnly ==
    [][ fxpc = "draw" =>
           /\ UNCHANGED << particles, screenShake, shakeOffset >>
           /\ UNCHANGED << state, mode, ball, playerY, aiY, playerScore,
                           aiScore, mult >> ]_vars

\* A two-player game in which the order of a tick's steps decides the
\* outcome: the player paddle at y = 300 with W held, the ball one tick
\* from the paddle at y = 275.  Only the paddle moved up by this tick, and
\* only the ball integrated by this tick, meet.
OrderExample ==
    [state |-> "Playing", mode |-> "Multi",
     ball |-> [x |-> Px(80), y |-> Px(275), vx |-> -Px(8), vy |-> 0],
     playerY |-> Px(300), aiY |-> Px(300),
     playerScore |-> 0, aiScore |-> 0, winScore |-> WIN_SCORE]

\* C17: a physics tick runs paddle movement, ball integration, wall
\* resolution, the player-paddle test, the second-paddle test, scoring
\* and the win check in that order: the paddle tests see the paddles this
\* tick moved and the ball this tick integrated and wall-resolved, scoring
\* sees the ball the paddle tests left, the win check sees the scores
\* after this tick's scoring.  The last conjunct is OrderExample, which
\* does not depend on the state and is evaluated in the Splash states.
C17_TickOrder ==
    /\ last.tick = "play" =>
          /\ playerY = MovePaddle(last.preP, keys[1], keys[2])
          /\ mode = "Multi" => aiY = MovePaddle(last.preA, keys[3], keys[4])
          /\ last.moved = IntegrateBall(last.pre)
          /\ last.walled = WallResolve(last.moved)
          /\ last.hitP = CheckPaddleCollision(last.walled, PlayerRect(playerY))
          /\ last.afterP = (IF last.hitP
                            THEN PaddleHit(last.walled, playerY, 1, last.mult)
                            ELSE last.walled)
          /\ last.hitA = CheckPaddleCollision(last.afterP, AIRect(aiY))
          /\ last.struck = (IF last.hitA
                            THEN PaddleHit(last.afterP, aiY, -1, last.mult)
                            ELSE last.afterP)
          /\ last.scored = (IF OutLeft(last.struck) THEN "left"
                            ELSE IF OutRight(last.struck) THEN "right"
                            ELSE "none")
          /\ aiScore = last.preAS + (IF last.scored = "left" THEN 1 ELSE 0)
          /\ playerScore = last.prePS + (IF last.scored = "right" THEN 1 ELSE 0)
          /\ last.scored = "none" => ball = last.struck
          /\ state \in {"Playing", "Paused", "GameOver"} =>
                ((state = "GameOver")
                   <=> (playerScore >= winScore \/ aiScore >= winScore))
    /\ state = "Splash" =>
          LET r == PlayStep(OrderExample, 10, <<TRUE, FALSE, FALSE, FALSE>>, 7)
          IN  /\ r.obs.hitP
              /\ r.g.playerY = Px(288)
              /\ r.g.ball.x = Px(72)
              /\ r.g.ball.vx > 0
              /\ ~CheckPaddleCollision(r.obs.walled, PlayerRect(Px(300)))
              /\ ~CheckPaddleCollision(OrderExample.ball, PlayerRect(Px(288)))

\* C17 witness: a tick in which the AI paddle moved and the ball, clear of
\* that paddle before the tick, was integrated onto it and hit.
C17_Witness ==
    /\ last.tick = "play"
    /\ mode = "AI"
    /\ last.hitA
    /\ aiY # last.preA
    /\ ~CheckPaddleCollision(last.pre, AIRect(aiY))

\* C18: the run starts in Splash; in every reachable state some input
\* changes the phase; and a phase change out of GameOver leads to Playing
\* or ModeSelect.
C18_NoTerminalPhase ==
    /\ state = "Splash"
    /\ [](ENABLED (Next /\ state' # state))
    /\ [][(state = "GameOver" /\ state' # state)
             => state' \in {"Playing", "ModeSelect"}]_vars

\* C18 witness: GameOver after a match the player side won, from which
\* R and M both lead on.
C18_Witness ==
    /\ state = "GameOver"
    /\ playerScore = WIN_SCORE
    /\ ENABLED (GameOverTick /\ state' = "Playing")
    /\ ENABLED (GameOverTick /\ state' = "ModeSelect")

Phases == {"Splash", "ModeSelect", "Playing", "Paused", "GameOver"}

\* The input events a phase reacts to: "start" is SPACE or a click on the
\* splash screen and a mode key or a click on a mode button on the menu,
\* "pause" is P, "restart" is R, "menu" is M without R.
Events == {"none", "start", "pause", "restart", "menu"}

\* The next phase as a function of the phase, the input event and won:
\* whether a score is at winScore when the win check runs, after the
\* tick's scoring.
PhaseTable(phase, event, won) ==
    CASE phase = "Splash" -> IF event = "start" THEN "ModeSelect" ELSE "Splash"
      [] phase = "ModeSelect" -> IF event = "start" THEN "Playing" ELSE "ModeSelect"
      [] phase = "Playing" -> IF event = "pause" THEN "Paused"
                              ELSE IF won THEN "GameOver" ELSE "Playing"
      [] phase = "Paused" -> IF event = "pause" THEN "Playing" ELSE "Paused"
      [] phase = "GameOver" -> IF event = "restart" THEN "Playing"
                               ELSE IF event = "menu" THEN "ModeSelect"
                               ELSE "GameOver"

\* C19 as first stated, on two physics ticks of one run: the last physics
\* tick started in Playing with the scores and the held keys of this one,
\* without P, and ended in Playing; a next phase fixed by phase, inputs and
\* the scores at the start of the tick makes this tick end in Playing too.
C19_PhaseFromStartScores ==
    [][ (/\ state = "Playing"
         /\ ticks' = ticks + 1
         /\ last.tick = "play"
         /\ last.prePS = playerScore
         /\ last.preAS = aiScore)
        => state' = "Playing" ]_vars

\* C19 amended: the next phase is PhaseTable of the phase, the input event
\* and the score state after the tick's scoring, total over all phases,
\* events and scores; the scores at the start of the tick do not fix it.
C19_PhaseFunction ==
    /\ [](state = "Splash" =>
            \A p \in Phases, e \in Events, w \in BOOLEAN :
               PhaseTable(p, e, w) \in Phases)
    /\ [](state = "ModeSelect" =>
            \A key1 \in BOOLEAN, key2 \in BOOLEAN, down \in BOOLEAN,
               pos \in MousePositions :
               LET pressed == down /\ ~mouseWasDown
                   onButton == \/ CheckCollisionPointRec(pos[1], pos[2], Mode1Bounds)
                               \/ CheckCollisionPointRec(pos[1], pos[2], Mode2Bounds)
                   event == IF key1 \/ key2 \/ (pressed /\ onButton)
                            THEN "start" ELSE "none"
               IN  ModeSelectStep(Game, mult, dragging, rng, key1, key2,
                                  down, pressed, pos).g.state
                      = PhaseTable("ModeSelect", event, FALSE))
    /\ [](state = "GameOver" =>
            \A keyR \in BOOLEAN, keyM \in BOOLEAN :
               GameOverStep(Game, mult, ServeDraw(rng), keyR, keyM).state
                  = PhaseTable("GameOver",
                               IF keyR THEN "restart"
                               ELSE IF keyM THEN "menu" ELSE "none",
                               TRUE))
    /\ [][ LET won == playerScore' >= winScore' \/ aiScore' >= winScore'
           IN  /\ state = "Playing" =>
                     state' = PhaseTable("Playing",
                                         IF ticks' = ticks + 1 THEN "none"
                                         ELSE "pause",
                                         won)
               /\ state = "Paused" =>
                     state' \in { PhaseTable("Paused", e, won) :
                                     e \in {"none", "pause"} }
               /\ state = "Splash" =>
                     state' \in { PhaseTable("Splash", e, won) :
                                     e \in {"none", "start"} } ]_vars

\* C19 witness: GameOver right after a physics tick that started at
\* winScore - 1 for the player and scored.
C19_Witness ==
    /\ state = "GameOver"
    /\ last.tick = "play"
    /\ last.prePS = WIN_SCORE - 1
    /\ playerScore = WIN_SCORE

\* Mouse x positions, in pixels, from left of the window to right of it.
MouseXs == -200 .. SCREEN_WIDTH + 200

\* C20: the multiplier, in tenths, is within [5, 20] in every state, and
\* on the menu the slider gives, for every mouse x, a value within [5, 20]
\* that is the multiple of 0.1 nearest to 0.5 + relativeX / 300 * 1.5.
C20_MultiplierRange ==
    /\ 5 <= mult
    /\ mult <= 20
    /\ state = "ModeSelect" =>
          \A mx \in MouseXs :
             LET relativeX == IF mx < 490 THEN 0
                              ELSE IF mx > 790 THEN 300 ELSE mx - 490
             IN  /\ 5 <= SliderValue(mx)
                 /\ SliderValue(mx) <= 20
                 /\ Abs(20 * SliderValue(mx) - (100 + relativeX)) <= 10

\* C20 witness: a match started with the slider dragged to its right end,
\* multiplier 2.0.
C20_Witness ==
    /\ state = "Playing"
    /\ last.tick = "init"
    /\ dragging
    /\ mult = 20

\* C21: at the end of a tick that scored, and right after a match
\* initialization, the ball is at the centre (640, 400), its horizontal
\* speed is BALL_INITIAL_SPEED times the current multiplier and its
\* vertical speed is at most that; after a point the ball moves toward the
\* side that conceded it.
C21_ResetAfterPoint ==
    LET scoredTick == last.tick = "play" /\ last.scored # "none"
        initTick == last.tick \in {"init", "restart"}
    IN  (state \in {"Playing", "Paused", "GameOver"} /\ (scoredTick \/ initTick)) =>
            /\ ball.x = Px(640)
            /\ ball.y = Px(400)
            /\ Abs(ball.vx) = (Px(BALL_INITIAL_SPEED) * mult) \div 10
            /\ Abs(ball.vy) <= (Px(BALL_INITIAL_SPEED) * mult) \div 10
            /\ (scoredTick /\ last.scored = "left") => ball.vx < 0
            /\ (scoredTick /\ last.scored = "right") => ball.vx > 0

\* The Game a match initialization in mode md must leave, ball apart.
FreshMatch(g, md) ==
    /\ g.state = "Playing"
    /\ g.mode = md
    /\ g.playerScore = 0
    /\ g.aiScore = 0
    /\ g.winScore = 10
    /\ g.playerY = Px(300)
    /\ g.aiY = Px(300)
    /\ g.ball.x = Px(640)
    /\ g.ball.y = Px(400)

\* C22: a match initialization leaves Playing, the requested mode, scores
\* 0/0, winScore 10, both paddles at y = 300 on their fixed x (10 and
\* 1245) and the ball at the centre, whatever the state before it: from
\* every reachable menu state for every mode key, click and mouse
\* position, from every reachable GameOver state on R, and in the state
\* the initializing step leaves.
C22_InitDiscardsMatch ==
    /\ PlayerRect(playerY).x = Px(10)
    /\ AIRect(aiY).x = Px(1245)
    /\ state = "ModeSelect" =>
          \A key1 \in BOOLEAN, key2 \in BOOLEAN, down \in BOOLEAN,
             pos \in MousePositions :
             LET pressed == down /\ ~mouseWasDown
                 res == ModeSelectStep(Game, mult, dragging, rng, key1, key2,
                                       down, pressed, pos)
                 on1 == pressed /\ CheckCollisionPointRec(pos[1], pos[2], Mode1Bounds)
                 on2 == pressed /\ CheckCollisionPointRec(pos[1], pos[2], Mode2Bounds)
                 requested == IF on1 THEN "AI" ELSE IF on2 THEN "Multi"
                              ELSE IF key1 THEN "AI" ELSE "Multi"
             IN  /\ res.init <=> (key1 \/ key2 \/ on1 \/ on2)
                 /\ res.init => FreshMatch(res.g, requested)
                 /\ ~res.init => res.g = Game
    /\ state = "GameOver" =>
          \A r \in {-100, 0, ServeDraw(rng), 100} :
             FreshMatch(GameOverStep(Game, mult, r, TRUE, FALSE), mode)
    /\ (state = "Playing" /\ last.tick \in {"init", "restart"}) =>
          FreshMatch(Game, mode)

\* C22 witness: a two-player match just restarted from GameOver, where a
\* score stood at winScore: scores and paddles are those of a fresh match,
\* with W and DOWN held.
C22_Witness ==
    /\ state = "Playing"
    /\ last.tick = "restart"
    /\ mode = "Multi"
    /\ keys = <<TRUE, FALSE, FALSE, TRUE>>
    /\ playerScore + aiScore = 0
    /\ playerY = Px(300)
    /\ aiY = Px(300)

\* The ball's centre y is within the vertical extent of the paddle at pY.
Covered(y, pY) == pY <= y /\ y <= pY + Px(PADDLE_HEIGHT)

\* The x positions at which the paddle test accepts a covered ball: the
\* paddle widened by two radii on each side.  The scoring boundary lies one
\* radius inside the far end of each zone.
InPlayerZone(x) == -Px(30) <= x /\ x < Px(75)

InAIZone(x) == Px(1205) <= x /\ x < Px(1310)

\* Ball speeds, in hundredths of a pixel per tick, up to
\* MAX_BALL_SPEED * m: the largest, the serve speed and a slow ball.
ApproachSpeeds(m) ==
    { AdjustedMaxSpeed(m), (Px(BALL_INITIAL_SPEED) * m) \div 10, Px(1) }

\* C23: no tunnelling.  On every physics tick a ball that moves toward a
\* paddle, is in that paddle's zone and has its centre within the paddle's
\* vertical extent is hit; a tick moves the ball by at most 30 pixels,
\* less than the 95 pixels of zone in front of the scoring boundary; and
\* a tick that scores found the ball, the tick before, inside the zone and
\* outside the paddle's extent.  So a ball covered on every tick of its
\* approach is hit before the boundary and no point is scored.  The last
\* conjunct, evaluated in the Splash states, is the zone test for every
\* multiplier in [0.5, 2.0], speeds up to MAX_BALL_SPEED * multiplier and
\* the first position a ball arriving from outside can take in each zone.
C23_NoTunnel ==
    /\ last.tick = "play" =>
          /\ (/\ last.walled.vx < 0
              /\ InPlayerZone(last.walled.x)
              /\ Covered(last.walled.y, playerY)) => last.hitP
          /\ (/\ last.afterP.vx > 0
              /\ InAIZone(last.afterP.x)
              /\ Covered(last.afterP.y, aiY)) => last.hitA
          /\ Abs(last.pre.vx) <= Px(30)
          /\ last.scored = "left" =>
                /\ last.pre.vx < 0
                /\ InPlayerZone(last.pre.x)
                /\ last.pre.x >= -Px(BALL_RADIUS)
                /\ ~Covered(last.pre.y, last.preP)
          /\ last.scored = "right" =>
                /\ last.pre.vx > 0
                /\ InAIZone(last.pre.x)
                /\ last.pre.x <= Px(SCREEN_WIDTH) + Px(BALL_RADIUS)
                /\ ~Covered(last.pre.y, last.preA)
    /\ state = "Splash" =>
          \A m \in 5..20 :
             \A v \in ApproachSpeeds(m), pY \in {0, Px(300), Px(600)},
                dy \in {0, Px(100), Px(200)}, vy \in {-1, 0, 1},
                back \in {0, 1, 50} :
                LET xP == Px(75) - back - v
                    xA == Px(1205) - 1 + back + v
                    bP == [x |-> xP, y |-> pY + dy, vx |-> -v, vy |-> vy * v]
                    bA == [x |-> xA, y |-> pY + dy, vx |-> v, vy |-> vy * v]
                IN  /\ v <= Px(30)
                    /\ CheckPaddleCollision(bP, PlayerRect(pY))
                    /\ ~OutLeft(bP)
                    /\ CheckPaddleCollision(bA, AIRect(pY))
                    /\ ~OutRight(bA)

\* C23 witness: at multiplier 2.0 a ball faster than its serve enters the
\* player paddle's zone from outside, its centre within the paddle's
\* extent, and is hit on that tick; no point is scored.
C23_Witness ==
    /\ last.tick = "play"
    /\ last.mult = 20
    /\ last.hitP
    /\ Abs(last.walled.vx) > Px(16)
    /\ ~InPlayerZone(last.pre.x)
    /\ Covered(last.walled.y, playerY)
    /\ last.scored = "none"

\* C24: whenever UpdateAI is about to run (Playing, AI mode), the
\* prediction divides by the ball's horizontal velocity only when that
\* velocity is strictly positive and the distance to the paddle, hence the
\* time, is positive; with velocity zero or negative, or the ball at or
\* behind the paddle, predictedY is the ball's current y and the target is
\* that y less half a paddle, clamped.  The same holds for this ball with
\* its horizontal velocity set to 0 or reversed, and for this ball moving
\* right at or behind the paddle's x.
C24_PredictionGuard ==
    (state = "Playing" /\ mode = "AI") =>
        LET d == AIRect(aiY).x - ball.x
            still == [ball EXCEPT !.vx = 0]
            away == [ball EXCEPT !.vx = -Abs(ball.vx)]
            behind(k) == [ball EXCEPT !.vx = Abs(ball.vx),
                                      !.x = AIRect(aiY).x + Px(k)]
            Tracks(b) ==
                /\ PredictedY(b, aiY) = b.y
                /\ AITarget(b, aiY, mult, FALSE, 0)
                      = Clamp(b.y - Px(100), 0, Px(600))
        IN  /\ (ball.vx <= 0 \/ d <= 0) => Tracks(ball)
            /\ (ball.vx > 0 /\ d > 0) =>
                  PredictedY(ball, aiY)
                     = FoldPrediction(ball.y + TruncDiv(ball.vy * d, ball.vx))
            /\ Tracks(still)
            /\ Tracks(away)
            /\ Tracks(behind(0))
            /\ Tracks(behind(30))

\* C24 witness: an AI-mode tick in which the ball moved away from the AI
\* paddle, up or down, and the AI paddle followed it.
C24_Witness ==
    /\ state = "Playing"
    /\ mode = "AI"
    /\ last.tick = "play"
    /\ last.pre.vx < 0
    /\ last.pre.vy # 0
    /\ aiY # last.preA

\* maxStep of UpdateAI, paddle speed times difficulty, under multiplier m.
MaxAIStep(m) == (Px(PADDLE_SPEED) * Difficulty(m)) \div 1000

\* Distances to the target, in hundredths of a pixel: none, up to and just
\* over one pixel, where the cap starts to act, and the largest possible.
TargetDistances ==
    { 0, 1, Px(1), Px(1) + 1, Px(50), Px(120), Px(172), Px(241), Px(600) }

\* C25: one UpdateAI call moves the AI paddle toward the clamped target and
\* never past it, by at most paddleSpeed * difficulty, with difficulty in
\* [0.5, 0.95], and not at all when the target is at most 1 pixel away:
\* for the call the next physics tick would make from every reachable
\* AI-mode state, with and without the random imperfection; for the call
\* the last tick made; and, evaluated in the Splash states, for the step
\* function at every multiplier in [0.5, 2.0] over TargetDistances in both
\* directions.
C25_AINoTeleport ==
    /\ (state = "Playing" /\ mode = "AI") =>
          \A errOn \in BOOLEAN, e \in {-30, 30} :
             LET t == AITarget(ball, aiY, mult, errOn, e)
                 n == UpdateAI(aiY, ball, mult, errOn, e)
             IN  /\ 0 <= t /\ t <= Px(600)
                 /\ Abs(n - aiY) <= MaxAIStep(mult)
                 /\ Abs(t - aiY) <= Px(1) => n = aiY
                 /\ Abs(t - aiY) > Px(1) => n # aiY
                 /\ t >= aiY => (aiY <= n /\ n <= t)
                 /\ t <= aiY => (t <= n /\ n <= aiY)
    /\ (last.tick = "play" /\ mode = "AI") =>
          Abs(aiY - last.preA) <= MaxAIStep(last.mult)
    /\ state = "Splash" =>
          \A m \in 5..20 :
             /\ 500 <= Difficulty(m)
             /\ Difficulty(m) <= 950
             /\ MaxAIStep(m) <= (Px(PADDLE_SPEED) * 95) \div 100
             /\ \A dist \in TargetDistances, dir \in {-1, 1} :
                   LET step == AIMoveStep(dir * dist, m)
                   IN  /\ Abs(step) <= MaxAIStep(m)
                       /\ Abs(step) <= dist
                       /\ dist <= Px(1) => step = 0
                       /\ dist > Px(1) => Sign(step) = dir

\* C25 witness: an AI-mode tick in which the cap acted: the AI paddle moved
\* by exactly paddleSpeed * difficulty and is still short of where it
\* would aim next.
C25_Witness ==
    /\ state = "Playing"
    /\ mode = "AI"
    /\ last.tick = "play"
    /\ Abs(aiY - last.preA) = MaxAIStep(last.mult)
    /\ Abs(AITarget(ball, aiY, mult, FALSE, 0) - aiY) > Px(1)

IsHitVy(vy, offset, newSpeed) ==
    /\ Abs(4 * HalfPaddle * vy - 3 * offset * newSpeed) < 4 * HalfPaddle
    /\ vy # 0 => Sign(vy) = Sign(offset)

\* C27: a paddle hit leaves vertical velocity hitOffset * newSpeed * 0.75,
\* newSpeed being the horizontal speed the hit sets, whatever the vertical
\* velocity before: on every tick with a hit, and for the same hit on the
\* ball with its vertical velocity inverted.  A hit at the paddle's exact
\* vertical centre gives vertical velocity 0 at every multiplier and
\* incoming speed (evaluated in the Splash states).
C27_HitVerticalVelocity ==
    /\ last.tick = "play" =>
          /\ last.hitP =>
                /\ IsHitVy(last.afterP.vy, HitOffset(last.walled, playerY),
                           last.afterP.vx)
                /\ PaddleHit([last.walled EXCEPT !.vy = -last.walled.vy],
                             playerY, 1, last.mult) = last.afterP
          /\ last.hitA =>
                /\ IsHitVy(last.struck.vy, HitOffset(last.afterP, aiY),
                           -last.struck.vx)
                /\ PaddleHit([last.afterP EXCEPT !.vy = -last.afterP.vy],
                             aiY, -1, last.mult) = last.struck
          /\ (last.scored = "none" /\ (last.hitP \/ last.hitA))
                => ball.vy = last.struck.vy
    /\ state = "Splash" =>
          \A m \in 5..20, vx \in {Px(1), Px(4), Px(8), Px(16), Px(30)},
             vy \in {-Px(12), 0, Px(7)}, pY \in {0, Px(300), Px(600)},
             dir \in {-1, 1} :
             LET b == [x |-> Px(640), y |-> pY + HalfPaddle,
                       vx |-> -dir * vx, vy |-> vy]
             IN  PaddleHit(b, pY, dir, m).vy = 0

\* C27 witness: a player-paddle hit below the paddle's centre on a ball
\* that was moving up: the tick ends with the ball moving down at the
\* hit's vertical velocity.
C27_Witness ==
    /\ last.tick = "play"
    /\ last.hitP
    /\ last.scored = "none"
    /\ last.walled.vy < 0
    /\ HitOffset(last.walled, playerY) > 0
    /\ ball.vy > 0

\* What a particle tick of deltaTime milliseconds must leave of the live
\* particles ps: those whose advanced lifetime is below their maximum, in
\* their order, each aged by deltaTime and moved by its velocity.
Survivors(ps, deltaTime) ==
    LET Alive(p) == p.lifeTime + deltaTime < p.maxLifeTime
        kept == SelectSeq(ps, Alive)
    IN  [i \in 1..Len(kept) |->
            [kept[i] EXCEPT !.lifeTime = @ + deltaTime,
                            !.x = @ + kept[i].vx, !.y = @ + kept[i].vy]]

\* C28: every live particle has lifeTime < maxLifeTime in every state, and
\* a DrawGame step, which runs the particle tick, leaves exactly the
\* particles whose advanced lifetime is still below their maximum, aged by
\* the frame time, in slots 1..n in their original order.
C28_ParticleTick ==
    /\ [](\A i \in 1..Len(particles) :
             /\ particles[i].lifeTime >= 0
             /\ particles[i].lifeTime < particles[i].maxLifeTime)
    /\ [][fxpc = "draw" =>
             \E deltaTime \in FrameTimes :
                particles' = Survivors(particles, deltaTime)]_vars

\* C28 witness: after a draw half, a pool from which the tick removed some
\* particles and kept others (the count is no longer a sum of whole
\* bursts), the first survivor aged.
C28_Witness ==
    /\ fxpc = "update"
    /\ frames > 0
    /\ Len(particles) > 0
    /\ Len(particles) % 5 # 0
    /\ particles[1].lifeTime > 0

\* The generator states a burst of k particles goes through from the state
\* that ends trail: one more after the four draws of each particle.
RECURSIVE DrawTrail(_, _)
DrawTrail(trail, k) ==
    IF k > 0 /\ Len(trail) > 0
    THEN LET s == trail[Len(trail)]
         IN  DrawTrail(Append(trail,
                              NextRandom(NextRandom(NextRandom(NextRandom(s))))),
                       k - 1)
    ELSE trail

\* The generator state after the four draws of each of k particles, from
\* state s.
Draws(s, k) == DrawTrail(<< s >>, k)[k + 1]

\* The burst sizes the program requests, a hit's 15 and ResetBall's 30, and
\* an empty one.
Requests == { 0, 15, 30 }

\* C29: from every reachable pool of n live particles, an emission of
\* count particles at the ball adds exactly min(count, 100 - n) particles
\* in slots n+1 onward, each at that position with lifetime 0 and a
\* positive maximum, and leaves the n existing particles as they were; a
\* request beyond the free capacity is cut short with nothing else done:
\* the result is a pool and nothing more, and the random source has given
\* four values for each particle added and none for the part cut off.
C29_EmitTruncates ==
    \A count \in Requests :
       LET n == Len(particles)
           added == Min(count, MAX_PARTICLES - n)
       IN  \E res \in { CreateParticleEffect(particles, ball.x, ball.y, count, rng) } :
              /\ DOMAIN res = {"particles", "rng"}
              /\ Len(res.particles) = n + added
              /\ SubSeq(res.particles, 1, n) = particles
              /\ \A i \in n + 1 .. n + added :
                    /\ res.particles[i].lifeTime = 0
                    /\ res.particles[i].maxLifeTime > 0
                    /\ res.particles[i].x = ball.x
                    /\ res.particles[i].y = ball.y
              /\ res.rng = Draws(rng, added)

\* C29 witness: a pool of 90 aged particles after a hit's request for 15:
\* ten were added, with lifetime 0, and the pool is full.
C29_Witness ==
    /\ fxpc = "draw"
    /\ screenShake = 5000
    /\ Len(particles) = MAX_PARTICLES
    /\ particles[90].lifeTime > 0
    /\ particles[91].lifeTime = 0

\* The ball of the first point's serve in a two-player match restarted
\* from GameOver with live particles ps and generator state s, when the
\* ball of the restart reaches the right edge untouched: InitGame on R
\* draws its serve angle and emits 30 particles into ps before it zeroes
\* the pool; the ticks up to the point take no draw (no AI, no shake); the
\* scoring tick's ResetBall draws the serve angle from the state the
\* emission left.
RestartThenPoint(ps, s, m) ==
    LET emitted == CreateParticleEffect(ps, Px(SCREEN_WIDTH \div 2),
                                        Px(SCREEN_HEIGHT \div 2), 30,
                                        NextRandom(s))
    IN  ResetBall(TRUE, m, ServeDraw(emitted.rng))

\* C30: particles have no gameplay effect.  Two executions that differ
\* only in the particle pool, this state's and an empty one, and get the
\* same values from the random source in the same order, are restarted
\* from GameOver in two-player mode and play the first point without a
\* paddle hit: the ball served after that point is the same in both.
C30_ParticlesNoGameplayEffect ==
    RestartThenPoint(particles, rng, mult) = RestartThenPoint(<< >>, rng, mult)

\* C31: on every physics tick at most one paddle registers a hit; a
\* paddle registers a hit only on a ball that moves toward it and was not
\* last hit, in this rally, by that same paddle; and after a hit the ball
\* moves away from the paddle that hit it until the other paddle hits it
\* or it is re-served.  So between two hits of one paddle there is a hit of
\* the other paddle or a serve.  The last conjunct, evaluated in the Splash
\* states, is the paddle test itself: it rejects every ball that does not
\* move toward the paddle, wherever the ball is, and a ball the player
\* paddle has just hit is not accepted by the second paddle's test.
C31_HitsAlternate ==
    /\ last.tick = "play" =>
          /\ ~(last.hitP /\ last.hitA)
          /\ last.hitP => rally.prev # "P" /\ last.walled.vx < 0
          /\ last.hitA => rally.prev # "A" /\ last.afterP.vx > 0
          /\ (~last.hitP /\ ~last.hitA) =>
                /\ last.struck.vx = last.pre.vx
                /\ last.scored = "none" => rally.hitter = rally.prev
    /\ rally.hitter = "P" => ball.vx > 0
    /\ rally.hitter = "A" => ball.vx < 0
    /\ state = "Splash" =>
          \A m \in {5, 10, 20} :
             \A x \in {-Px(30), 0, Px(40), Px(74), Px(640), Px(1205),
                       Px(1250), Px(1309)},
                pY \in {0, Px(300), Px(600)}, dy \in {0, Px(100), Px(200)},
                v \in {0} \cup ApproachSpeeds(m), vy \in {-1, 0, 1} :
                LET away == [x |-> x, y |-> pY + dy, vx |-> v, vy |-> vy * v]
                    back == [away EXCEPT !.vx = -v]
                    hit  == PaddleHit(back, pY, 1, m)
                IN  /\ ~CheckPaddleCollision(away, PlayerRect(pY))
                    /\ ~CheckPaddleCollision(back, AIRect(pY))
                    /\ CheckPaddleCollision(back, PlayerRect(pY)) =>
                          /\ hit.vx > 0
                          /\ ~CheckPaddleCollision(hit, PlayerRect(pY))
                          /\ ~CheckPaddleCollision(hit, AIRect(pY))

\* C31 witness: the player paddle returns a ball that the second paddle
\* hit earlier in the same rally, and the rally goes on.
C31_Witness ==
    /\ state = "Playing"
    /\ last.tick = "play"
    /\ last.hitP
    /\ ~last.hitA
    /\ rally.prev = "A"
    /\ rally.hitter = "P"
    /\ last.scored = "none"

\* The slowest horizontal speed a ball can have: the serve speed
\* BALL_INITIAL_SPEED * multiplier at the smallest multiplier, 0.5.
MinBallSpeed == (Px(BALL_INITIAL_SPEED) * 5) \div 10

\* The longest way a ball can go between two events: the screen width and
\* the two radii either paddle test or scoring boundary reaches beyond it
\* at each end.
MaxTravel == Px(SCREEN_WIDTH) + 4 * Px(BALL_RADIUS)

\* The bound on consecutive physics ticks without a paddle hit or a point.
StallBound == MaxTravel \div MinBallSpeed + 1

\* C32: during a match the ball's horizontal velocity is never zero, and
\* is at least the slowest serve speed; a physics tick without a paddle hit
\* or a point moves the ball by exactly that velocity and keeps it; so the
\* ticks since the last serve or paddle hit, times the horizontal speed,
\* never exceed the width the ball can cross, and their number never
\* exceeds StallBound.  The last conjunct, evaluated in the Splash states,
\* is the two places that set the horizontal velocity, for every multiplier
\* in [0.5, 2.0]: a serve, and a paddle hit on a ball at least as fast as
\* the slowest serve (up to the fastest ball of any multiplier), leave it
\* non-zero and not below the slowest serve speed.
C32_NoStall ==
    /\ state \in {"Playing", "Paused", "GameOver"} =>
          /\ ball.vx # 0
          /\ Abs(ball.vx) >= MinBallSpeed
          /\ -Px(2 * BALL_RADIUS) <= ball.x
          /\ ball.x <= Px(SCREEN_WIDTH) + Px(2 * BALL_RADIUS)
    /\ (last.tick = "play" /\ ~last.hitP /\ ~last.hitA
                           /\ last.scored = "none") =>
          /\ rally.quiet > 0
          /\ ball.x = last.pre.x + last.pre.vx
          /\ ball.vx = last.pre.vx
    /\ rally.quiet * Abs(ball.vx) <= MaxTravel
    /\ rally.quiet <= StallBound
    /\ state = "Splash" =>
          \A m \in 5..20 :
             /\ \A server \in BOOLEAN, r \in {-100, 0, 100} :
                   Abs(ResetBall(server, m, r).vx) >= MinBallSpeed
             /\ \A v \in {MinBallSpeed, (Px(BALL_INITIAL_SPEED) * m) \div 10,
                         AdjustedMaxSpeed(m), Px(2 * BALL_INITIAL_SPEED),
                         Px(2 * MAX_BALL_SPEED)},
                   dir \in {-1, 1} :
                   LET b == [x |-> Px(40), y |-> Px(350),
                             vx |-> -dir * v, vy |-> 0]
                   IN  Abs(PaddleHit(b, Px(300), dir, m).vx) >= MinBallSpeed

\* C32 witness: a ball the player paddle hit has crossed the field for 140
\* physics ticks without a further hit or a point, and this tick reaches
\* the second paddle's zone.
C32_Witness ==
    /\ state = "Playing"
    /\ last.tick = "play"
    /\ rally.hitter = "P"
    /\ rally.quiet >= 140
    /\ InAIZone(ball.x)

\* C33: right after the update half of a frame that ran InitGame the
\* particle pool is empty, whatever number of particles it held before,
\* although InitGame's ResetBall did emit its burst: the random source has
\* advanced by the serve angle and four values for each of the
\* min(30, MAX_PARTICLES - n) particles emitted into the pool of n.  Right
\* after a point, by contrast, the pool holds the particles it held and the
\* serve's burst, each particle of the burst live (lifetime 0 below its
\* maximum).
C33_InitEmptiesPool ==
    fxpc = "draw" =>
       LET burst == Min(30, MAX_PARTICLES - fxlast.pool)
       IN  /\ fxlast.event = "init" =>
                /\ particles = << >>
                /\ rng = Draws(NextRandom(fxlast.rng), burst)
           /\ fxlast.event = "score" =>
                /\ Len(particles) = fxlast.pool + burst
                /\ rng = Draws(NextRandom(fxlast.rng), burst)
                /\ \A i \in (fxlast.pool + 1)..Len(particles) :
                      /\ particles[i].lifeTime = 0
                      /\ particles[i].maxLifeTime > 0

\* C33 witness: InitGame has just run on a pool of at least 45 particles,
\* and the pool is empty.
C33_Witness ==
    /\ fxpc = "draw"
    /\ fxlast.event = "init"
    /\ fxlast.pool >= 45
    /\ Len(particles) = 0

====
